---- MODULE Spec2Model ----
(***************************************************************************)
(* The CAT service of Station-Manager/cat: the Service controller          *)
(* (Initialize / Start / Stop / EnqueueCommand), its per-run workers and   *)
(* the command formatter, as a state machine.                              *)
(*                                                                         *)
(* Strings are sequences of one-character strings, so that upper-casing,   *)
(* trimming, counting and formatting are computed and not assumed.         *)
(***************************************************************************)
EXTENDS Integers, Sequences, FiniteSets, TLC

VARIABLES
    ConfigService,      \* the injected configuration collaborator, or "nil"
    LoggerService,      \* the injected logging collaborator, or "nil"
    config,             \* Service.config: "nil" or the rig configuration
    serialPort,         \* Service.serialPort: "nil" or "port"
    supportedCatStates, \* Service.supportedCatStates: key -> CatState
    maxCatPrefixLen,    \* Service.maxCatPrefixLen
    initialized,        \* Service.initialized (atomic.Bool)
    started,            \* Service.started (atomic.Bool)
    initOnce,           \* Service.initOnce: TRUE once Do has run its function
    mu,                 \* Service.mu: 0 when free, else the caller holding it
    currentRun,         \* Service.currentRun: 0 (nil) or a run
    statusChannel,      \* Service.statusChannel
    sendChannel,        \* Service.sendChannel
    processingChannel,  \* Service.processingChannel
    shutdownChannel,    \* runState.shutdownChannel of every run
    worker,             \* the goroutines of every run
    nextRun,            \* number of runState values allocated so far
    nextChan,           \* number of channels made so far
    pc,                 \* where each caller is in its current call
    local,              \* the local variables of each caller's current call
    last,               \* what the step just taken returned or wrote, if anything
    hist,               \* counts kept of what has happened so far
    held,               \* what each worker goroutine holds in its local variables
    consumer            \* "receiving" while a consumer waits in <-statusChannel

vars ==
    << ConfigService, LoggerService, config, serialPort, supportedCatStates,
       maxCatPrefixLen, initialized, started, initOnce, mu, currentRun,
       statusChannel, sendChannel, processingChannel, shutdownChannel, worker,
       nextRun, nextChan, pc, local, last, hist, held, consumer >>

(***************************************************************************)
(* Bounds of the model.                                                    *)
(***************************************************************************)
NumCallers == 2
MaxRuns == 2
MaxCloseFails == 1
MaxSendChannelSize == 2
MaxTemplateTokens == 3
MaxParams == 3
MaxPrefixLen == 2
MaxCatStates == 2
MaxLineTokens == 3
MaxMarkers == 2
MaxStatusCap == 1
MaxMappings == 2
IntBits == 5

Callers == 1 .. NumCallers
Runs == 1 .. MaxRuns
Workers == {"serialPortListener", "serialPortSender", "lineProcessor"}

(***************************************************************************)
(* Strings.                                                                *)
(***************************************************************************)
Min(a, b) == IF a < b THEN a ELSE b
Max(a, b) == IF a > b THEN a ELSE b

SeqsUpTo(S, n) == UNION { [1 .. k -> S] : k \in 0 .. n }

RECURSIVE Flatten(_)
Flatten(ss) ==
    IF ss = << >> THEN << >> ELSE Head(ss) \o Flatten(Tail(ss))

\* unicode.ToUpper on the characters the model uses
UpperChar(ch) ==
    CASE ch = "a" -> "A"
      [] ch = "b" -> "B"
      [] ch = "c" -> "C"
      [] ch = "d" -> "D"
      [] OTHER -> ch

ToUpper(str) == [i \in 1 .. Len(str) |-> UpperChar(str[i])]

IsSpace(ch) == ch \in {" ", "\t", "\n", "\r"}

RECURSIVE TrimLeft(_)
TrimLeft(str) ==
    IF str # << >> /\ IsSpace(Head(str)) THEN TrimLeft(Tail(str)) ELSE str

RECURSIVE TrimRight(_)
TrimRight(str) ==
    IF str # << >> /\ IsSpace(str[Len(str)])
    THEN TrimRight(SubSeq(str, 1, Len(str) - 1))
    ELSE str

TrimSpace(str) == TrimRight(TrimLeft(str))

\* strings.Count(str, "%s"): the non-overlapping occurrences, left to right
RECURSIVE CountPercentS(_)
CountPercentS(str) ==
    IF Len(str) < 2 THEN 0
    ELSE IF str[1] = "%" /\ str[2] = "s"
         THEN 1 + CountPercentS(SubSeq(str, 3, Len(str)))
         ELSE CountPercentS(Tail(str))

(***************************************************************************)
(* fmt.Sprintf(format, a...) for string arguments.  The result is the      *)
(* sequence of pieces written to the buffer: a literal character, an       *)
(* argument, or one of fmt's error texts.  Flags, widths and argument      *)
(* indexes are not modelled: no template drawn below has one.              *)
(***************************************************************************)
GoodStringVerb(verb) == verb \in {"s", "v"}

RECURSIVE ExtraArgs(_, _)
ExtraArgs(a, i) ==
    IF i > Len(a) THEN << ")" >>
    ELSE (IF i < Len(a) THEN << "string=", a[i], ", " >> ELSE << "string=", a[i] >>)
         \o ExtraArgs(a, i + 1)

RECURSIVE doPrintf(_, _, _)
doPrintf(format, a, argNum) ==
    LET extra == IF argNum < Len(a)
                 THEN << "%!(EXTRA " >> \o ExtraArgs(a, argNum + 1)
                 ELSE << >>
    IN  IF format = << >> THEN extra
        ELSE IF Head(format) # "%"
             THEN << Head(format) >> \o doPrintf(Tail(format), a, argNum)
        ELSE IF Len(format) = 1 THEN << "%!(NOVERB)" >> \o extra
        ELSE LET verb == format[2]
                 rest == SubSeq(format, 3, Len(format))
             IN  IF verb = "%" THEN << "%" >> \o doPrintf(rest, a, argNum)
                 ELSE IF argNum >= Len(a)
                      THEN << "%!", verb, "(MISSING)" >> \o doPrintf(rest, a, argNum)
                 ELSE IF GoodStringVerb(verb)
                      THEN << a[argNum + 1] >> \o doPrintf(rest, a, argNum + 1)
                 ELSE << "%!", verb, "(string=", a[argNum + 1], ")" >>
                      \o doPrintf(rest, a, argNum + 1)

Sprintf(format, a) == doPrintf(format, a, 0)

(***************************************************************************)
(* Values.                                                                 *)
(***************************************************************************)
\* a nil chan, and make(chan T, n)
NilChan == [id |-> 0, cap |-> 0, buf |-> << >>]
MakeChan(n, size) == [id |-> n, cap |-> size, buf |-> << >>]

\* a nil *types.RigConfig and a nil *config.Service
NilConfig == [nil |-> TRUE]
NilService == [nil |-> TRUE]

\* a caller's locals: EnqueueCommand's cmdName and catCmd.Cmd, Stop's run
NoLocal == [name |-> "", params |-> << >>, cmd |-> << >>, run |-> 0]

\* the zero values of types.CatState and types.CatCommand, and of the local
\* variables of a worker: the matched state the Listener offers, the status
\* the Processor publishes with the statuses it has evicted for it, and the
\* command the Sender writes.  A types.CatStatus (map[string]string) is the
\* set of its entries.
NoState == [Prefix |-> << >>, Markers |-> << >>, Data |-> << >>]
NoCommand == [Name |-> "", Cmd |-> << >>, run |-> 0]
NoHeld == [state |-> NoState, status |-> {}, evicted |-> << >>, cmd |-> NoCommand]

\* the return of a call (op, caller c, the place at it returned from, error
\* err, and EnqueueCommand's arguments and formatted command), a write of
\* the Sender (op "WriteCommand", by the Sender of run, of the command cmd
\* that was accepted while currentRun was from), or what a Listener or a
\* Processor just did with a line, a matched state or a status
NoEvent ==
    [op |-> "none", c |-> 0, at |-> "", err |-> "nil", name |-> "",
     params |-> << >>, cmd |-> << >>, run |-> 0, from |-> 0,
     line |-> << >>, state |-> NoState, status |-> {}, evicted |-> << >>,
     chan |-> 0]
Returned(op, c, err) ==
    [NoEvent EXCEPT !.op = op, !.c = c, !.at = pc[c], !.err = err]

\* the error texts of the package
errMsgNilConfigService == "errMsgNilConfigService"
errMsgNilLoggerService == "errMsgNilLoggerService"
errMsgInvalidRigID == "errMsgInvalidRigID"
errMsgServiceNotInit == "errMsgServiceNotInit"
errMsgServiceNotStarted == "errMsgServiceNotStarted"
errEmptyPrefix == "CAT state entry has an empty prefix"
errRequiredConfigs == "RequiredConfigs failed"
errRigConfigByID == "RigConfigByID failed"
errValidate == "validate.Struct failed"
errLookup == "Command lookup failed"
errFormat == "Command parameter validation failed"
errSendFull == "Send channel is full."
errSendClosed == "Send channel is closed."
errOpen == "Failed to initialize serial port."
errClose == "Failed to close serial port"
errStatusClosed == "Status channel is closed."

(***************************************************************************)
(* Initialize.                                                             *)
(***************************************************************************)
\* getRigConfig: the default rig's configuration, or an error
getRigConfig ==
    IF ConfigService.RequiredConfigsErr
    THEN [err |-> errRequiredConfigs, cfg |-> NilConfig]
    ELSE IF ConfigService.DefaultRigID < 1
    THEN [err |-> errMsgInvalidRigID, cfg |-> NilConfig]
    ELSE IF ConfigService.RigConfigByIDErr
    THEN [err |-> errRigConfigByID, cfg |-> NilConfig]
    ELSE [err |-> "nil", cfg |-> ConfigService.Rig]

\* validateConfig: the struct validator's verdict on the configuration
validateConfig(cfg) == IF ConfigService.Valid THEN "nil" ELSE errValidate

\* initializeStateSet: the prefix table of the configured states; an entry
\* whose trimmed, upper-cased prefix is empty is an error
RECURSIVE stateSetFrom(_, _, _, _)
stateSetFrom(states, i, table, maxLen) ==
    IF i > Len(states)
    THEN [err |-> "nil", table |-> table, maxLen |-> maxLen]
    ELSE LET key == ToUpper(TrimSpace(states[i].Prefix))
         IN  IF key = << >>
             THEN [err |-> errEmptyPrefix, table |-> table, maxLen |-> maxCatPrefixLen]
             ELSE stateSetFrom(states, i + 1,
                      [k \in (DOMAIN table) \cup {key} |->
                          IF k = key THEN states[i] ELSE table[k]],
                      Max(maxLen, Len(key)))

initializeStateSet(cfg) == stateSetFrom(cfg.CatStates, 1, << >>, 0)

\* InitializeBody as in the earlier revision (src/service.go:88), where the
\* state set's outcome is not looked at
InitializeBodyStateSetUnchecked ==
    LET unchanged == [config |-> config, table |-> supportedCatStates,
                      maxLen |-> maxCatPrefixLen, made |-> FALSE]
    IN  IF ConfigService.nil
        THEN [initErr |-> errMsgNilConfigService] @@ unchanged
        ELSE IF LoggerService = "nil"
        THEN [initErr |-> errMsgNilLoggerService] @@ unchanged
        ELSE LET got == getRigConfig
             IN  IF got.err # "nil" THEN [initErr |-> got.err] @@ unchanged
                 ELSE IF validateConfig(got.cfg) # "nil"
                 THEN [initErr |-> validateConfig(got.cfg)] @@ unchanged
                 ELSE LET set == initializeStateSet(got.cfg)
                      IN  [initErr |-> "nil", config |-> got.cfg,
                           table |-> set.table, maxLen |-> set.maxLen,
                           made |-> TRUE]

\* the function Initialize hands to initOnce.Do: the fields it leaves and initErr
InitializeBody ==
    LET unchanged == [config |-> config, table |-> supportedCatStates,
                      maxLen |-> maxCatPrefixLen, made |-> FALSE]
    IN  IF ConfigService.nil
        THEN [initErr |-> errMsgNilConfigService] @@ unchanged
        ELSE IF LoggerService = "nil"
        THEN [initErr |-> errMsgNilLoggerService] @@ unchanged
        ELSE LET got == getRigConfig
             IN  IF got.err # "nil" THEN [initErr |-> got.err] @@ unchanged
                 ELSE IF validateConfig(got.cfg) # "nil"
                 THEN [initErr |-> validateConfig(got.cfg)] @@ unchanged
                 ELSE LET set == initializeStateSet(got.cfg)
                      IN  [initErr |-> set.err, config |-> got.cfg,
                           table |-> set.table, maxLen |-> set.maxLen,
                           made |-> set.err = "nil"]

\* one call of Initialize: initErr is a variable of the call, which only the
\* function run by initOnce.Do assigns
Initialize(c) ==
    /\ pc[c] = "idle"
    /\ IF initOnce
       THEN /\ last' = Returned("Initialize", c, "nil")
            /\ UNCHANGED << config, supportedCatStates, maxCatPrefixLen, initialized,
                            initOnce, statusChannel, sendChannel, processingChannel,
                            nextChan, hist >>
       ELSE LET out == InitializeBody
            IN  /\ initOnce' = TRUE
                /\ config' = out.config
                /\ supportedCatStates' = out.table
                /\ maxCatPrefixLen' = out.maxLen
                /\ IF out.made
                   THEN /\ statusChannel' = MakeChan(nextChan + 1, 1)
                        /\ sendChannel' =
                               MakeChan(nextChan + 2, out.config.SendChannelSize)
                        /\ processingChannel' =
                               MakeChan(nextChan + 3, out.config.ProcessingChannelSize)
                        /\ nextChan' = nextChan + 3
                        /\ initialized' = TRUE
                   ELSE UNCHANGED << statusChannel, sendChannel, processingChannel,
                                     nextChan, initialized >>
                /\ last' = Returned("Initialize", c, out.initErr)
                /\ hist' = [hist EXCEPT !.bodyRuns = @ + 1, !.firstInit = out.initErr]
    /\ UNCHANGED << held, consumer >>
    /\ UNCHANGED << ConfigService, LoggerService, serialPort, started, mu, currentRun,
                    shutdownChannel, worker, nextRun, pc, local >>

(***************************************************************************)
(* Start.  The steps of one call: the initialized check; mu.Lock and the   *)
(* started check; initializeSerialPort, the run and its three workers;     *)
(* started.Store(true) with the deferred mu.Unlock.                        *)
(***************************************************************************)
Return(op, c, err) ==
    /\ pc' = [pc EXCEPT ![c] = "idle"]
    /\ local' = [local EXCEPT ![c] = NoLocal]
    /\ last' = Returned(op, c, err)

Goto(c, label) ==
    /\ pc' = [pc EXCEPT ![c] = label]
    /\ last' = NoEvent

\* StartEnter as it would be without the initialized check
StartEnterUnchecked(c) ==
    /\ pc[c] = "idle"
    /\ Goto(c, "Start:Lock") /\ UNCHANGED local
    /\ UNCHANGED << held, consumer >>
    /\ UNCHANGED << ConfigService, LoggerService, config, serialPort,
                    supportedCatStates, maxCatPrefixLen, initialized, started,
                    initOnce, mu, currentRun, statusChannel, sendChannel,
                    processingChannel, shutdownChannel, worker, nextRun, nextChan,
                    hist >>

\* if !s.initialized.Load() { return error }
StartEnter(c) ==
    /\ pc[c] = "idle"
    /\ IF ~initialized
       THEN Return("Start", c, errMsgServiceNotInit)
       ELSE Goto(c, "Start:Lock") /\ UNCHANGED local
    /\ UNCHANGED << held, consumer >>
    /\ UNCHANGED << ConfigService, LoggerService, config, serialPort,
                    supportedCatStates, maxCatPrefixLen, initialized, started,
                    initOnce, mu, currentRun, statusChannel, sendChannel,
                    processingChannel, shutdownChannel, worker, nextRun, nextChan,
                    hist >>

\* StartLock as it would be if Start did not wait for s.mu
StartLockNoMutex(c) ==
    /\ pc[c] = "Start:Lock"
    /\ IF started
       THEN /\ Return("Start", c, "nil")
            /\ UNCHANGED mu
       ELSE /\ nextRun < MaxRuns
            /\ mu' = c
            /\ Goto(c, "Start:open")
            /\ UNCHANGED local
    /\ UNCHANGED << held, consumer >>
    /\ UNCHANGED << ConfigService, LoggerService, config, serialPort,
                    supportedCatStates, maxCatPrefixLen, initialized, started,
                    initOnce, currentRun, statusChannel, sendChannel,
                    processingChannel, shutdownChannel, worker, nextRun, nextChan,
                    hist >>

\* StartLock as in the earlier revision (src/service.go:111-113), where a
\* Start on a started service is an error
StartLockAlreadyStarted(c) ==
    /\ pc[c] = "Start:Lock"
    /\ mu = 0
    /\ IF started
       THEN /\ Return("Start", c, "Service already started.")
            /\ UNCHANGED mu
       ELSE /\ nextRun < MaxRuns
            /\ mu' = c
            /\ Goto(c, "Start:open")
            /\ UNCHANGED local
    /\ UNCHANGED << held, consumer >>
    /\ UNCHANGED << ConfigService, LoggerService, config, serialPort,
                    supportedCatStates, maxCatPrefixLen, initialized, started,
                    initOnce, currentRun, statusChannel, sendChannel,
                    processingChannel, shutdownChannel, worker, nextRun, nextChan,
                    hist >>

\* s.mu.Lock() waits for the mutex; what the started check then reads cannot
\* change while it is held
StartLock(c) ==
    /\ pc[c] = "Start:Lock"
    /\ mu = 0
    /\ IF started
       THEN /\ Return("Start", c, "nil")
            /\ UNCHANGED mu
       ELSE /\ nextRun < MaxRuns
            /\ mu' = c
            /\ Goto(c, "Start:open")
            /\ UNCHANGED local
    /\ UNCHANGED << held, consumer >>
    /\ UNCHANGED << ConfigService, LoggerService, config, serialPort,
                    supportedCatStates, maxCatPrefixLen, initialized, started,
                    initOnce, currentRun, statusChannel, sendChannel,
                    processingChannel, shutdownChannel, worker, nextRun, nextChan,
                    hist >>

\* StartOpen as in the earlier revision (src/unnamed/part_007:71,96-97), where
\* the shutdown channel is made once and every Start launches its workers on it
StartOpenSharedSignal(c) ==
    /\ pc[c] = "Start:open"
    /\ \E opened \in BOOLEAN :
          IF opened
          THEN LET run == IF nextRun = 0 THEN 1 ELSE nextRun
               IN  /\ serialPort' = "port"
                   /\ hist' = [hist EXCEPT !.closes = 0]
                   /\ nextRun' = run
                   /\ currentRun' = run
                   /\ shutdownChannel' =
                          IF nextRun = 0
                          THEN [shutdownChannel EXCEPT ![run] = "open"]
                          ELSE shutdownChannel
                   /\ worker' = [worker EXCEPT ![run] = [w \in Workers |-> "running"]]
                   /\ Goto(c, "Start:store")
                   /\ UNCHANGED << mu, local >>
          ELSE /\ serialPort' = "nil"
               /\ mu' = 0
               /\ Return("Start", c, errOpen)
               /\ UNCHANGED << hist, nextRun, currentRun, shutdownChannel, worker >>
    /\ UNCHANGED << held, consumer >>
    /\ UNCHANGED << ConfigService, LoggerService, config, supportedCatStates,
                    maxCatPrefixLen, initialized, started, initOnce, statusChannel,
                    sendChannel, processingChannel, nextChan >>

\* StartOpen as it would be if the run were made and its workers launched
\* before initializeSerialPort is called
StartOpenLaunchesFirst(c) ==
    /\ pc[c] = "Start:open"
    /\ nextRun' = nextRun + 1
    /\ currentRun' = nextRun + 1
    /\ shutdownChannel' = [shutdownChannel EXCEPT ![nextRun + 1] = "open"]
    /\ worker' = [worker EXCEPT ![nextRun + 1] = [w \in Workers |-> "running"]]
    /\ \E opened \in BOOLEAN :
          IF opened
          THEN /\ serialPort' = "port"
               /\ hist' = [hist EXCEPT !.closes = 0]
               /\ Goto(c, "Start:store")
               /\ UNCHANGED << mu, local >>
          ELSE /\ serialPort' = "nil"
               /\ mu' = 0
               /\ Return("Start", c, errOpen)
               /\ UNCHANGED hist
    /\ UNCHANGED << held, consumer >>
    /\ UNCHANGED << ConfigService, LoggerService, config, supportedCatStates,
                    maxCatPrefixLen, initialized, started, initOnce, statusChannel,
                    sendChannel, processingChannel, nextChan >>

\* initializeSerialPort: serial.Open succeeds or fails; then
\* run := &runState{shutdownChannel: make(chan struct{})} and launchWorkerThread x 3
StartOpen(c) ==
    /\ pc[c] = "Start:open"
    /\ \E opened \in BOOLEAN :
          IF opened
          THEN /\ serialPort' = "port"
               /\ hist' = [hist EXCEPT !.closes = 0]
               /\ nextRun' = nextRun + 1
               /\ currentRun' = nextRun + 1
               /\ shutdownChannel' = [shutdownChannel EXCEPT ![nextRun + 1] = "open"]
               /\ worker' = [worker EXCEPT ![nextRun + 1] = [w \in Workers |-> "running"]]
               /\ Goto(c, "Start:store")
               /\ UNCHANGED << mu, local >>
          ELSE /\ serialPort' = "nil"
               /\ mu' = 0
               /\ Return("Start", c, errOpen)
               /\ UNCHANGED << hist, nextRun, currentRun, shutdownChannel, worker >>
    /\ UNCHANGED << held, consumer >>
    /\ UNCHANGED << ConfigService, LoggerService, config, supportedCatStates,
                    maxCatPrefixLen, initialized, started, initOnce, statusChannel,
                    sendChannel, processingChannel, nextChan >>

StartStore(c) ==
    /\ pc[c] = "Start:store"
    /\ started' = TRUE
    /\ mu' = 0
    /\ Return("Start", c, "nil")
    /\ UNCHANGED << held, consumer >>
    /\ UNCHANGED << ConfigService, LoggerService, config, serialPort,
                    supportedCatStates, maxCatPrefixLen, initialized, initOnce,
                    currentRun, statusChannel, sendChannel, processingChannel,
                    shutdownChannel, worker, nextRun, nextChan, hist >>

(***************************************************************************)
(* Stop.  The steps of one call: the initialized check; mu.Lock and the    *)
(* started check; closing the run's shutdownChannel; wg.Wait, closing the  *)
(* port and clearing the run.                                              *)
(***************************************************************************)
StopEnter(c) ==
    /\ pc[c] = "idle"
    /\ IF ~initialized
       THEN Return("Stop", c, errMsgServiceNotInit)
       ELSE Goto(c, "Stop:Lock") /\ UNCHANGED local
    /\ UNCHANGED << held, consumer >>
    /\ UNCHANGED << ConfigService, LoggerService, config, serialPort,
                    supportedCatStates, maxCatPrefixLen, initialized, started,
                    initOnce, mu, currentRun, statusChannel, sendChannel,
                    processingChannel, shutdownChannel, worker, nextRun, nextChan,
                    hist >>

StopLock(c) ==
    /\ pc[c] = "Stop:Lock"
    /\ mu = 0
    /\ IF ~started
       THEN /\ Return("Stop", c, "nil")
            /\ UNCHANGED mu
       ELSE /\ mu' = c
            /\ Goto(c, "Stop:signal")
            /\ UNCHANGED local
    /\ UNCHANGED << held, consumer >>
    /\ UNCHANGED << ConfigService, LoggerService, config, serialPort,
                    supportedCatStates, maxCatPrefixLen, initialized, started,
                    initOnce, currentRun, statusChannel, sendChannel,
                    processingChannel, shutdownChannel, worker, nextRun, nextChan,
                    hist >>

\* StopSignal as in the earlier revision (src/service.go:147-150), which
\* closes run.shutdownChannel without looking whether it is closed
StopSignalUnguarded(c) ==
    /\ pc[c] = "Stop:signal"
    /\ local' = [local EXCEPT ![c].run = currentRun]
    /\ IF currentRun # 0
       THEN /\ shutdownChannel' = [shutdownChannel EXCEPT ![currentRun] = "closed"]
            /\ hist' = [hist EXCEPT !.signals[currentRun] = @ + 1]
       ELSE UNCHANGED << shutdownChannel, hist >>
    /\ Goto(c, "Stop:close")
    /\ UNCHANGED << held, consumer >>
    /\ UNCHANGED << ConfigService, LoggerService, config, serialPort,
                    supportedCatStates, maxCatPrefixLen, initialized, started,
                    initOnce, mu, currentRun, statusChannel, sendChannel,
                    processingChannel, worker, nextRun, nextChan >>

\* run := s.currentRun; close(run.shutdownChannel) unless it is closed already
StopSignal(c) ==
    /\ pc[c] = "Stop:signal"
    /\ local' = [local EXCEPT ![c].run = currentRun]
    /\ IF currentRun # 0 /\ shutdownChannel[currentRun] = "open"
       THEN /\ shutdownChannel' = [shutdownChannel EXCEPT ![currentRun] = "closed"]
            /\ hist' = [hist EXCEPT !.signals[currentRun] = @ + 1]
       ELSE UNCHANGED << shutdownChannel, hist >>
    /\ Goto(c, "Stop:close")
    /\ UNCHANGED << held, consumer >>
    /\ UNCHANGED << ConfigService, LoggerService, config, serialPort,
                    supportedCatStates, maxCatPrefixLen, initialized, started,
                    initOnce, mu, currentRun, statusChannel, sendChannel,
                    processingChannel, worker, nextRun, nextChan >>

\* StopClose as it would be without s.started.Store(false)
StopCloseKeepsStarted(c) ==
    /\ pc[c] = "Stop:close"
    /\ local[c].run # 0 => \A w \in Workers : worker[local[c].run][w] = "exited"
    /\ \E closed \in BOOLEAN :
          /\ ~closed => serialPort # "nil" /\ hist.closeFails < MaxCloseFails
          /\ hist' = [hist EXCEPT
                        !.closes = IF serialPort # "nil" THEN @ + 1 ELSE @,
                        !.closeFails = IF closed THEN @ ELSE @ + 1]
          /\ IF closed
             THEN /\ serialPort' = "nil"
                  /\ currentRun' = 0
                  /\ UNCHANGED started
                  /\ Return("Stop", c, "nil")
             ELSE /\ UNCHANGED << serialPort, currentRun, started >>
                  /\ Return("Stop", c, errClose)
    /\ mu' = 0
    /\ UNCHANGED << held, consumer >>
    /\ UNCHANGED << ConfigService, LoggerService, config, supportedCatStates,
                    maxCatPrefixLen, initialized, initOnce, statusChannel,
                    sendChannel, processingChannel, shutdownChannel, worker, nextRun,
                    nextChan >>

\* StopClose as it would be without run.wg.Wait()
StopCloseNoWait(c) ==
    /\ pc[c] = "Stop:close"
    /\ \E closed \in BOOLEAN :
          /\ ~closed => serialPort # "nil" /\ hist.closeFails < MaxCloseFails
          /\ hist' = [hist EXCEPT
                        !.closes = IF serialPort # "nil" THEN @ + 1 ELSE @,
                        !.closeFails = IF closed THEN @ ELSE @ + 1]
          /\ IF closed
             THEN /\ serialPort' = "nil"
                  /\ currentRun' = 0
                  /\ started' = FALSE
                  /\ Return("Stop", c, "nil")
             ELSE /\ UNCHANGED << serialPort, currentRun, started >>
                  /\ Return("Stop", c, errClose)
    /\ mu' = 0
    /\ UNCHANGED << held, consumer >>
    /\ UNCHANGED << ConfigService, LoggerService, config, supportedCatStates,
                    maxCatPrefixLen, initialized, initOnce, statusChannel,
                    sendChannel, processingChannel, shutdownChannel, worker, nextRun,
                    nextChan >>

\* run.wg.Wait(), then s.serialPort.Close(), which succeeds or fails; on
\* failure Stop returns at once
StopClose(c) ==
    /\ pc[c] = "Stop:close"
    /\ local[c].run # 0 => \A w \in Workers : worker[local[c].run][w] = "exited"
    /\ \E closed \in BOOLEAN :
          /\ ~closed => serialPort # "nil" /\ hist.closeFails < MaxCloseFails
          /\ hist' = [hist EXCEPT
                        !.closes = IF serialPort # "nil" THEN @ + 1 ELSE @,
                        !.closeFails = IF closed THEN @ ELSE @ + 1]
          /\ IF closed
             THEN /\ serialPort' = "nil"
                  /\ currentRun' = 0
                  /\ started' = FALSE
                  /\ Return("Stop", c, "nil")
             ELSE /\ UNCHANGED << serialPort, currentRun, started >>
                  /\ Return("Stop", c, errClose)
    /\ mu' = 0
    /\ UNCHANGED << held, consumer >>
    /\ UNCHANGED << ConfigService, LoggerService, config, supportedCatStates,
                    maxCatPrefixLen, initialized, initOnce, statusChannel,
                    sendChannel, processingChannel, shutdownChannel, worker, nextRun,
                    nextChan >>

(***************************************************************************)
(* StatusChannel: the status channel, or an error if the service is not    *)
(* initialized or has no status channel.                                   *)
(***************************************************************************)
StatusChannel(c) ==
    /\ pc[c] = "idle"
    /\ IF ~initialized
       THEN last' = Returned("StatusChannel", c, errMsgServiceNotInit)
       ELSE IF statusChannel.id = 0
       THEN last' = Returned("StatusChannel", c, errStatusClosed)
       ELSE last' = [Returned("StatusChannel", c, "nil")
                        EXCEPT !.chan = statusChannel.id]
    /\ UNCHANGED << pc, local >>
    /\ UNCHANGED << held, consumer >>
    /\ UNCHANGED << ConfigService, LoggerService, config, serialPort,
                    supportedCatStates, maxCatPrefixLen, initialized, started,
                    initOnce, mu, currentRun, statusChannel, sendChannel,
                    processingChannel, shutdownChannel, worker, nextRun, nextChan,
                    hist >>

(***************************************************************************)
(* The workers of a run.                                                   *)
(***************************************************************************)
\* any worker: the <-shutdown case of its select
WorkerExit(r, w) ==
    /\ worker[r][w] = "running"
    /\ shutdownChannel[r] = "closed"
    /\ worker' = [worker EXCEPT ![r][w] = "exited"]
    /\ last' = NoEvent
    /\ UNCHANGED << held, consumer >>
    /\ UNCHANGED << ConfigService, LoggerService, config, serialPort,
                    supportedCatStates, maxCatPrefixLen, initialized, started,
                    initOnce, mu, currentRun, statusChannel, sendChannel,
                    processingChannel, shutdownChannel, nextRun, nextChan, pc,
                    local, hist >>

\* serialPortSender: the cmd := <-s.sendChannel case, and WriteCommand, which
\* succeeds or fails; a failure is logged and the command is gone
serialPortSender(r) ==
    /\ worker[r]["serialPortSender"] = "running"
    /\ sendChannel.buf # << >>
    /\ sendChannel' = [sendChannel EXCEPT !.buf = Tail(@)]
    /\ \E written \in {"nil", "write failed"} :
          last' = [NoEvent EXCEPT !.op = "WriteCommand", !.err = written,
                                  !.cmd = Head(sendChannel.buf).Cmd,
                                  !.name = Head(sendChannel.buf).Name,
                                  !.from = Head(sendChannel.buf).run,
                                  !.run = r]
    /\ UNCHANGED << held, consumer >>
    /\ UNCHANGED << ConfigService, LoggerService, config, serialPort,
                    supportedCatStates, maxCatPrefixLen, initialized, started,
                    initOnce, mu, currentRun, statusChannel, processingChannel,
                    shutdownChannel, worker, nextRun, nextChan, pc, local, hist >>

(***************************************************************************)
(* The State Matcher of the Listener.                                      *)
(***************************************************************************)
minPrefix == 2

\* the for loop of lookupCatState: the keys probed from the first l bytes
\* down to the first min bytes, the first hit winning
RECURSIVE probeFrom(_, _, _, _)
probeFrom(line, prefixSlice, l, min) ==
    IF l < min THEN [ok |-> FALSE, st |-> NoState]
    ELSE LET key == TrimSpace(SubSeq(prefixSlice, 1, l))
         IN  IF key = << >> THEN probeFrom(line, prefixSlice, l - 1, min)
             ELSE IF key \in DOMAIN supportedCatStates
             THEN [ok |-> TRUE,
                   st |-> [supportedCatStates[key] EXCEPT
                              !.Data = SubSeq(line, l + 1, Len(line))]]
             ELSE probeFrom(line, prefixSlice, l - 1, min)

lookupWith(line, min) ==
    IF Len(line) < min THEN [ok |-> FALSE, st |-> NoState]
    ELSE LET capped == IF maxCatPrefixLen > Len(line) THEN Len(line)
                       ELSE maxCatPrefixLen
             maxLen == IF capped < min THEN min ELSE capped
             prefixSlice == ToUpper(SubSeq(line, 1, maxLen))
         IN  probeFrom(line, prefixSlice, maxLen, min)

\* lookupCatState with the shortest key probed first
RECURSIVE probeUpFrom(_, _, _, _)
probeUpFrom(line, prefixSlice, l, maxLen) ==
    IF l > maxLen THEN [ok |-> FALSE, st |-> NoState]
    ELSE LET key == TrimSpace(SubSeq(prefixSlice, 1, l))
         IN  IF key # << >> /\ key \in DOMAIN supportedCatStates
             THEN [ok |-> TRUE,
                   st |-> [supportedCatStates[key] EXCEPT
                              !.Data = SubSeq(line, l + 1, Len(line))]]
             ELSE probeUpFrom(line, prefixSlice, l + 1, maxLen)

lookupCatStateShortestFirst(line) ==
    IF Len(line) < minPrefix THEN [ok |-> FALSE, st |-> NoState]
    ELSE LET maxLen == Max(Min(maxCatPrefixLen, Len(line)), minPrefix)
         IN  probeUpFrom(line, ToUpper(SubSeq(line, 1, maxLen)), minPrefix, maxLen)

\* lookupCatState with a minimum prefix length of one byte
lookupCatStateMinPrefixOne(line) == lookupWith(line, 1)

lookupCatState(line) == lookupWith(line, minPrefix)

\* the Listener's call of lookupCatState on the line that
\* ReadResponseBytes has just returned
Lookup ==
    /\ initialized
    /\ last.op = "ReadResponseBytes"
    /\ last.err = "nil"
    /\ LET found == lookupCatState(last.line)
       IN  last' = [NoEvent EXCEPT !.op = "lookupCatState",
                                   !.err = IF found.ok THEN "nil" ELSE "no match",
                                   !.line = last.line,
                                   !.state = found.st]
    /\ UNCHANGED << held, consumer >>
    /\ UNCHANGED << ConfigService, LoggerService, config, serialPort,
                    supportedCatStates, maxCatPrefixLen, initialized, started,
                    initOnce, mu, currentRun, statusChannel, sendChannel,
                    processingChannel, shutdownChannel, worker, nextRun, nextChan,
                    pc, local, hist >>

(***************************************************************************)
(* The Listener.  A worker that is "running" is at the select of its main  *)
(* loop; the Listener is otherwise inside ReadResponseBytes ("read") or at *)
(* the select that offers a matched state to the processing queue          *)
(* ("offer").                                                              *)
(***************************************************************************)
\* the <-readTicker.C case: the Listener calls ReadResponseBytes
ListenerTick(r) ==
    /\ worker[r]["serialPortListener"] = "running"
    /\ serialPort # "nil"
    /\ worker' = [worker EXCEPT ![r]["serialPortListener"] = "read"]
    /\ last' = NoEvent
    /\ UNCHANGED << held, consumer, statusChannel, processingChannel >>
    /\ UNCHANGED << ConfigService, LoggerService, config, serialPort,
                    supportedCatStates, maxCatPrefixLen, initialized, started,
                    initOnce, mu, currentRun, sendChannel, shutdownChannel,
                    nextRun, nextChan, pc, local, hist >>

\* ReadResponseBytes as it would be if the Listener did not look at the ok
\* of lookupCatState
ReadResponseBytesOffersUnmatched(r, err, lineBytes) ==
    /\ worker[r]["serialPortListener"] = "read"
    /\ LET found == lookupCatState(lineBytes)
       IN  IF err # "nil" \/ lineBytes = << >>
           THEN /\ last' = [NoEvent EXCEPT !.op = "ReadResponseBytes",
                                           !.err = err, !.run = r]
                /\ worker' = [worker EXCEPT ![r]["serialPortListener"] = "running"]
                /\ UNCHANGED held
           ELSE /\ last' = [NoEvent EXCEPT !.op = "lookupCatState",
                                           !.err = IF found.ok THEN "nil"
                                                   ELSE "no match",
                                           !.line = lineBytes,
                                           !.state = found.st, !.run = r]
                /\ worker' = [worker EXCEPT ![r]["serialPortListener"] = "offer"]
                /\ held' = [held EXCEPT !["serialPortListener"] =
                               [NoHeld EXCEPT !.state = found.st]]
    /\ UNCHANGED << consumer, statusChannel, processingChannel >>
    /\ UNCHANGED << ConfigService, LoggerService, config, serialPort,
                    supportedCatStates, maxCatPrefixLen, initialized, started,
                    initOnce, mu, currentRun, sendChannel, shutdownChannel,
                    nextRun, nextChan, pc, local, hist >>

\* ReadResponseBytes returns err or lineBytes; an error and an empty line
\* end the tick, anything else goes to lookupCatState
ReadResponseBytes(r, err, lineBytes) ==
    /\ worker[r]["serialPortListener"] = "read"
    /\ LET found == lookupCatState(lineBytes)
       IN  IF err # "nil" \/ lineBytes = << >>
           THEN /\ last' = [NoEvent EXCEPT !.op = "ReadResponseBytes",
                                           !.err = err, !.run = r]
                /\ worker' = [worker EXCEPT ![r]["serialPortListener"] = "running"]
                /\ UNCHANGED held
           ELSE /\ last' = [NoEvent EXCEPT !.op = "lookupCatState",
                                           !.err = IF found.ok THEN "nil"
                                                   ELSE "no match",
                                           !.line = lineBytes,
                                           !.state = found.st, !.run = r]
                /\ worker' = [worker EXCEPT ![r]["serialPortListener"] =
                                 IF found.ok THEN "offer" ELSE "running"]
                /\ held' = [held EXCEPT !["serialPortListener"] =
                               [NoHeld EXCEPT !.state = found.st]]
    /\ UNCHANGED << consumer, statusChannel, processingChannel >>
    /\ UNCHANGED << ConfigService, LoggerService, config, serialPort,
                    supportedCatStates, maxCatPrefixLen, initialized, started,
                    initOnce, mu, currentRun, sendChannel, shutdownChannel,
                    nextRun, nextChan, pc, local, hist >>

\* ListenerOffer as it would be without the default case: the send waits
\* for room in the processing channel
ListenerOfferNoDefault(r) ==
    /\ worker[r]["serialPortListener"] = "offer"
    /\ \/ /\ shutdownChannel[r] = "closed"
          /\ worker' = [worker EXCEPT ![r]["serialPortListener"] = "exited"]
          /\ last' = NoEvent
          /\ UNCHANGED processingChannel
       \/ /\ Len(processingChannel.buf) < processingChannel.cap
          /\ processingChannel' = [processingChannel EXCEPT !.buf =
                                      Append(@, held["serialPortListener"].state)]
          /\ worker' = [worker EXCEPT ![r]["serialPortListener"] = "running"]
          /\ last' = [NoEvent EXCEPT !.op = "offer", !.run = r,
                                     !.state = held["serialPortListener"].state]
    /\ held' = [held EXCEPT !["serialPortListener"] = NoHeld]
    /\ UNCHANGED << consumer, statusChannel >>
    /\ UNCHANGED << ConfigService, LoggerService, config, serialPort,
                    supportedCatStates, maxCatPrefixLen, initialized, started,
                    initOnce, mu, currentRun, sendChannel, shutdownChannel,
                    nextRun, nextChan, pc, local, hist >>

\* select { case <-shutdown: return; case s.processingChannel <- state:;
\* default: drop }: one of the cases that are ready, the default if none is
ListenerOffer(r) ==
    /\ worker[r]["serialPortListener"] = "offer"
    /\ \/ /\ shutdownChannel[r] = "closed"
          /\ worker' = [worker EXCEPT ![r]["serialPortListener"] = "exited"]
          /\ last' = NoEvent
          /\ UNCHANGED processingChannel
       \/ /\ Len(processingChannel.buf) < processingChannel.cap
          /\ processingChannel' = [processingChannel EXCEPT !.buf =
                                      Append(@, held["serialPortListener"].state)]
          /\ worker' = [worker EXCEPT ![r]["serialPortListener"] = "running"]
          /\ last' = [NoEvent EXCEPT !.op = "offer", !.run = r,
                                     !.state = held["serialPortListener"].state]
       \/ /\ shutdownChannel[r] # "closed"
          /\ Len(processingChannel.buf) >= processingChannel.cap
          /\ worker' = [worker EXCEPT ![r]["serialPortListener"] = "running"]
          /\ last' = [NoEvent EXCEPT !.op = "offer", !.run = r,
                                     !.err = "processing channel full",
                                     !.state = held["serialPortListener"].state]
          /\ UNCHANGED processingChannel
    /\ held' = [held EXCEPT !["serialPortListener"] = NoHeld]
    /\ UNCHANGED << consumer, statusChannel >>
    /\ UNCHANGED << ConfigService, LoggerService, config, serialPort,
                    supportedCatStates, maxCatPrefixLen, initialized, started,
                    initOnce, mu, currentRun, sendChannel, shutdownChannel,
                    nextRun, nextChan, pc, local, hist >>

(***************************************************************************)
(* The Sender, with the write as a step of its own: the Sender is inside   *)
(* WriteCommand ("write") from the receive of a command to the return of   *)
(* the write.  serialPortSender above is the two steps taken as one.       *)
(***************************************************************************)
SenderReceive(r) ==
    /\ worker[r]["serialPortSender"] = "running"
    /\ sendChannel.buf # << >>
    /\ sendChannel' = [sendChannel EXCEPT !.buf = Tail(@)]
    /\ held' = [held EXCEPT !["serialPortSender"] =
                   [NoHeld EXCEPT !.cmd = Head(sendChannel.buf)]]
    /\ worker' = [worker EXCEPT ![r]["serialPortSender"] = "write"]
    /\ last' = NoEvent
    /\ UNCHANGED << consumer, statusChannel, processingChannel >>
    /\ UNCHANGED << ConfigService, LoggerService, config, serialPort,
                    supportedCatStates, maxCatPrefixLen, initialized, started,
                    initOnce, mu, currentRun, shutdownChannel, nextRun, nextChan,
                    pc, local, hist >>

\* WriteCommand as it would be if the Sender put a command whose write
\* failed back into sendChannel
WriteCommandRequeues(r) ==
    /\ worker[r]["serialPortSender"] = "write"
    /\ \E written \in {"nil", "write failed"} :
          /\ sendChannel' =
                IF written # "nil" /\ Len(sendChannel.buf) < sendChannel.cap
                THEN [sendChannel EXCEPT !.buf =
                         Append(@, held["serialPortSender"].cmd)]
                ELSE sendChannel
          /\ last' = [NoEvent EXCEPT !.op = "WriteCommand", !.err = written,
                                  !.cmd = held["serialPortSender"].cmd.Cmd,
                                  !.name = held["serialPortSender"].cmd.Name,
                                  !.from = held["serialPortSender"].cmd.run,
                                  !.run = r]
    /\ held' = [held EXCEPT !["serialPortSender"] = NoHeld]
    /\ worker' = [worker EXCEPT ![r]["serialPortSender"] = "running"]
    /\ UNCHANGED << consumer, statusChannel, processingChannel >>
    /\ UNCHANGED << ConfigService, LoggerService, config, serialPort,
                    supportedCatStates, maxCatPrefixLen, initialized, started,
                    initOnce, mu, currentRun, shutdownChannel, nextRun, nextChan,
                    pc, local, hist >>

\* WriteCommand returns: nil, or an error that is logged
WriteCommand(r) ==
    /\ worker[r]["serialPortSender"] = "write"
    /\ \E written \in {"nil", "write failed"} :
          last' = [NoEvent EXCEPT !.op = "WriteCommand", !.err = written,
                                  !.cmd = held["serialPortSender"].cmd.Cmd,
                                  !.name = held["serialPortSender"].cmd.Name,
                                  !.from = held["serialPortSender"].cmd.run,
                                  !.run = r]
    /\ held' = [held EXCEPT !["serialPortSender"] = NoHeld]
    /\ worker' = [worker EXCEPT ![r]["serialPortSender"] = "running"]
    /\ UNCHANGED << consumer, statusChannel, processingChannel, sendChannel >>
    /\ UNCHANGED << ConfigService, LoggerService, config, serialPort,
                    supportedCatStates, maxCatPrefixLen, initialized, started,
                    initOnce, mu, currentRun, shutdownChannel, nextRun, nextChan,
                    pc, local, hist >>

(***************************************************************************)
(* The Marker Extractor of the Processor.  Go's int is modelled with       *)
(* IntBits bits: marker.Index + marker.Length wraps around as it does in   *)
(* the code.                                                               *)
(***************************************************************************)
MaxInt == 2 ^ (IntBits - 1) - 1
MinInt == 0 - 2 ^ (IntBits - 1)

WrapInt(n) == ((n - MinInt) % (2 ^ IntBits)) + MinInt

\* status[tag] = value
Put(status, tag, value) ==
    { e \in status : e.Tag # tag } \cup { [Tag |-> tag, Value |-> value] }

\* the scan of marker.ValueMappings as it would be without the break: the
\* last mapping whose key is the slice wins
RECURSIVE mappedFromLastWins(_, _, _)
mappedFromLastWins(mappings, slice, i) ==
    IF i > Len(mappings) THEN << >>
    ELSE LET rest == mappedFromLastWins(mappings, slice, i + 1)
         IN  IF slice = mappings[i].Key
                /\ ~ \E j \in (i + 1) .. Len(mappings) : slice = mappings[j].Key
             THEN mappings[i].Value
             ELSE rest

\* the scan of marker.ValueMappings: the first mapping whose key is the
\* slice, or the empty string
RECURSIVE mappedFrom(_, _, _)
mappedFrom(mappings, slice, i) ==
    IF i > Len(mappings) THEN << >>
    ELSE IF slice = mappings[i].Key THEN mappings[i].Value
    ELSE mappedFrom(mappings, slice, i + 1)

\* the loop over state.Markers
RECURSIVE resolveMarkers(_, _, _, _)
resolveMarkers(markers, data, i, status) ==
    IF i > Len(markers) THEN status
    ELSE LET marker == markers[i]
             start == marker.Index
             sum == WrapInt(marker.Index + marker.Length)
             end == IF sum > Len(data) THEN Len(data) ELSE sum
         IN  IF start < 0 \/ start >= Len(data)
             THEN resolveMarkers(markers, data, i + 1, status)
             ELSE IF start >= end
             THEN resolveMarkers(markers, data, i + 1, status)
             ELSE LET slice == SubSeq(data, start + 1, end)
                      value == IF marker.ValueMappings = << >> THEN slice
                               ELSE mappedFrom(marker.ValueMappings, slice, 1)
                  IN  resolveMarkers(markers, data, i + 1,
                                     Put(status, marker.Tag, value))

\* lineProcessor as it would be without the len(state.Markers) == 0 check:
\* the empty status of a state without markers is published
lineProcessorNoMarkerCheck(r) ==
    /\ worker[r]["lineProcessor"] = "running"
    /\ processingChannel.buf # << >>
    /\ LET state == Head(processingChannel.buf)
           status == resolveMarkers(state.Markers, state.Data, 1, {})
       IN  /\ processingChannel' = [processingChannel EXCEPT !.buf = Tail(@)]
           /\ IF FALSE
              THEN UNCHANGED << worker, held, last >>
              ELSE /\ last' = [NoEvent EXCEPT !.op = "lineProcessor",
                                              !.state = state,
                                              !.status = status, !.run = r]
                   /\ worker' = [worker EXCEPT ![r]["lineProcessor"] = "publish"]
                   /\ held' = [held EXCEPT !["lineProcessor"] =
                                  [NoHeld EXCEPT !.state = state, !.status = status]]
    /\ UNCHANGED consumer
    /\ UNCHANGED << ConfigService, LoggerService, config, serialPort,
                    supportedCatStates, maxCatPrefixLen, initialized, started,
                    initOnce, mu, currentRun, statusChannel, sendChannel,
                    shutdownChannel, nextRun, nextChan, pc, local, hist >>

\* lineProcessor: the state := <-s.processingChannel case up to the call of
\* sendStatusWithEviction; a state without markers is logged and skipped
lineProcessor(r) ==
    /\ worker[r]["lineProcessor"] = "running"
    /\ processingChannel.buf # << >>
    /\ LET state == Head(processingChannel.buf)
           status == resolveMarkers(state.Markers, state.Data, 1, {})
       IN  /\ processingChannel' = [processingChannel EXCEPT !.buf = Tail(@)]
           /\ IF state.Markers = << >>
              THEN /\ last' = [NoEvent EXCEPT !.op = "lineProcessor",
                                              !.err = "no markers",
                                              !.state = state, !.run = r]
                   /\ UNCHANGED << worker, held >>
              ELSE /\ last' = [NoEvent EXCEPT !.op = "lineProcessor",
                                              !.state = state,
                                              !.status = status, !.run = r]
                   /\ worker' = [worker EXCEPT ![r]["lineProcessor"] = "publish"]
                   /\ held' = [held EXCEPT !["lineProcessor"] =
                                  [NoHeld EXCEPT !.state = state, !.status = status]]
    /\ UNCHANGED consumer
    /\ UNCHANGED << ConfigService, LoggerService, config, serialPort,
                    supportedCatStates, maxCatPrefixLen, initialized, started,
                    initOnce, mu, currentRun, statusChannel, sendChannel,
                    shutdownChannel, nextRun, nextChan, pc, local, hist >>

(***************************************************************************)
(* Status publication.  The Processor is at the select of                  *)
(* sendStatusWithEviction ("publish") or, after its default case, in       *)
(* tryEvictOldestStatus ("evict").  A send is ready when the channel has   *)
(* room or a consumer is waiting in a receive.                             *)
(***************************************************************************)
\* the publish loop of the earlier revision (src/processor.go:155-165), whose
\* send case continues the loop: the Processor stays at the select after it
\* has sent the status
sendStatusInlineLoop(r) ==
    /\ worker[r]["lineProcessor"] = "publish"
    /\ LET status == held["lineProcessor"].status
           ready == \/ Len(statusChannel.buf) < statusChannel.cap
                    \/ consumer = "receiving"
       IN  \/ /\ shutdownChannel[r] = "closed"
              /\ worker' = [worker EXCEPT ![r]["lineProcessor"] = "exited"]
              /\ held' = [held EXCEPT !["lineProcessor"] = NoHeld]
              /\ hist' = [hist EXCEPT !.offers = 0]
              /\ last' = NoEvent
              /\ UNCHANGED << statusChannel, consumer >>
           \/ /\ ready
              /\ IF consumer = "receiving"
                 THEN consumer' = "none" /\ UNCHANGED statusChannel
                 ELSE /\ statusChannel' = [statusChannel EXCEPT !.buf =
                                              Append(@, status)]
                      /\ UNCHANGED consumer
              /\ last' = [NoEvent EXCEPT !.op = "publish", !.run = r,
                                         !.at = IF consumer = "receiving"
                                                THEN "consumer"
                                                ELSE "statusChannel",
                                         !.status = status,
                                         !.evicted = held["lineProcessor"].evicted]
              /\ hist' = [hist EXCEPT !.offers = @ + 1]
              /\ UNCHANGED << worker, held >>
           \/ /\ shutdownChannel[r] # "closed"
              /\ ~ready
              /\ worker' = [worker EXCEPT ![r]["lineProcessor"] = "evict"]
              /\ hist' = [hist EXCEPT !.offers = @ + 1]
              /\ last' = NoEvent
              /\ UNCHANGED << statusChannel, consumer, held >>
    /\ UNCHANGED << ConfigService, LoggerService, config, serialPort,
                    supportedCatStates, maxCatPrefixLen, initialized, started,
                    initOnce, mu, currentRun, sendChannel, processingChannel,
                    shutdownChannel, nextRun, nextChan, pc, local >>

\* sendStatusWithEviction as it would be with a default case that gives up:
\* when the send is not ready the new status is dropped and the status in
\* the channel stays
sendStatusDropsNewest(r) ==
    /\ worker[r]["lineProcessor"] = "publish"
    /\ LET status == held["lineProcessor"].status
           ready == \/ Len(statusChannel.buf) < statusChannel.cap
                    \/ consumer = "receiving"
       IN  \/ /\ shutdownChannel[r] = "closed"
              /\ worker' = [worker EXCEPT ![r]["lineProcessor"] = "exited"]
              /\ held' = [held EXCEPT !["lineProcessor"] = NoHeld]
              /\ hist' = [hist EXCEPT !.offers = 0]
              /\ last' = NoEvent
              /\ UNCHANGED << statusChannel, consumer >>
           \/ /\ ready
              /\ IF consumer = "receiving"
                 THEN consumer' = "none" /\ UNCHANGED statusChannel
                 ELSE /\ statusChannel' = [statusChannel EXCEPT !.buf =
                                              Append(@, status)]
                      /\ UNCHANGED consumer
              /\ worker' = [worker EXCEPT ![r]["lineProcessor"] = "running"]
              /\ held' = [held EXCEPT !["lineProcessor"] = NoHeld]
              /\ hist' = [hist EXCEPT !.offers = 0]
              /\ last' = [NoEvent EXCEPT !.op = "publish", !.run = r,
                                         !.at = IF consumer = "receiving"
                                                THEN "consumer"
                                                ELSE "statusChannel",
                                         !.status = status,
                                         !.evicted = held["lineProcessor"].evicted]
           \/ /\ shutdownChannel[r] # "closed"
              /\ ~ready
              /\ worker' = [worker EXCEPT ![r]["lineProcessor"] = "running"]
              /\ held' = [held EXCEPT !["lineProcessor"] = NoHeld]
              /\ hist' = [hist EXCEPT !.offers = 0]
              /\ last' = [NoEvent EXCEPT !.op = "dropStatus", !.run = r,
                                         !.status = status]
              /\ UNCHANGED << statusChannel, consumer >>
    /\ UNCHANGED << ConfigService, LoggerService, config, serialPort,
                    supportedCatStates, maxCatPrefixLen, initialized, started,
                    initOnce, mu, currentRun, sendChannel, processingChannel,
                    shutdownChannel, nextRun, nextChan, pc, local >>

sendStatusWithEviction(r) ==
    /\ worker[r]["lineProcessor"] = "publish"
    /\ LET status == held["lineProcessor"].status
           ready == \/ Len(statusChannel.buf) < statusChannel.cap
                    \/ consumer = "receiving"
       IN  \/ /\ shutdownChannel[r] = "closed"
              /\ worker' = [worker EXCEPT ![r]["lineProcessor"] = "exited"]
              /\ held' = [held EXCEPT !["lineProcessor"] = NoHeld]
              /\ hist' = [hist EXCEPT !.offers = 0]
              /\ last' = NoEvent
              /\ UNCHANGED << statusChannel, consumer >>
           \/ /\ ready
              /\ IF consumer = "receiving"
                 THEN consumer' = "none" /\ UNCHANGED statusChannel
                 ELSE /\ statusChannel' = [statusChannel EXCEPT !.buf =
                                              Append(@, status)]
                      /\ UNCHANGED consumer
              /\ worker' = [worker EXCEPT ![r]["lineProcessor"] = "running"]
              /\ held' = [held EXCEPT !["lineProcessor"] = NoHeld]
              /\ hist' = [hist EXCEPT !.offers = 0]
              /\ last' = [NoEvent EXCEPT !.op = "publish", !.run = r,
                                         !.at = IF consumer = "receiving"
                                                THEN "consumer"
                                                ELSE "statusChannel",
                                         !.status = status,
                                         !.evicted = held["lineProcessor"].evicted]
           \/ /\ shutdownChannel[r] # "closed"
              /\ ~ready
              /\ worker' = [worker EXCEPT ![r]["lineProcessor"] = "evict"]
              /\ hist' = [hist EXCEPT !.offers = @ + 1]
              /\ last' = NoEvent
              /\ UNCHANGED << statusChannel, consumer, held >>
    /\ UNCHANGED << ConfigService, LoggerService, config, serialPort,
                    supportedCatStates, maxCatPrefixLen, initialized, started,
                    initOnce, mu, currentRun, sendChannel, processingChannel,
                    shutdownChannel, nextRun, nextChan, pc, local >>

\* tryEvictOldestStatus as it would be without the cap(s.statusChannel) == 0
\* check: on an unbuffered channel the send is tried again and again
tryEvictNoCapCheck(r) ==
    /\ worker[r]["lineProcessor"] = "evict"
    /\ \/ /\ shutdownChannel[r] = "closed"
          /\ worker' = [worker EXCEPT ![r]["lineProcessor"] = "exited"]
          /\ held' = [held EXCEPT !["lineProcessor"] = NoHeld]
          /\ hist' = [hist EXCEPT !.offers = 0]
          /\ last' = NoEvent
          /\ UNCHANGED statusChannel
       \/ /\ statusChannel.buf # << >>
          /\ statusChannel' = [statusChannel EXCEPT !.buf = Tail(@)]
          /\ UNCHANGED hist
          /\ held' = [held EXCEPT !["lineProcessor"].evicted =
                         Append(@, Head(statusChannel.buf))]
          /\ worker' = [worker EXCEPT ![r]["lineProcessor"] = "publish"]
          /\ last' = [NoEvent EXCEPT !.op = "evict", !.run = r,
                                     !.status = Head(statusChannel.buf)]
       \/ /\ shutdownChannel[r] # "closed"
          /\ statusChannel.buf = << >>
          /\ worker' = [worker EXCEPT ![r]["lineProcessor"] = "publish"]
          /\ last' = NoEvent
          /\ UNCHANGED << statusChannel, held, hist >>
    /\ UNCHANGED consumer
    /\ UNCHANGED << ConfigService, LoggerService, config, serialPort,
                    supportedCatStates, maxCatPrefixLen, initialized, started,
                    initOnce, mu, currentRun, sendChannel, processingChannel,
                    shutdownChannel, nextRun, nextChan, pc, local >>

\* tryEvictOldestStatus: false on an unbuffered channel, and then
\* sendStatusWithEviction returns false and lineProcessor returns; otherwise
\* one status is received if there is one, and the send is tried again
tryEvictOldestStatus(r) ==
    /\ worker[r]["lineProcessor"] = "evict"
    /\ IF statusChannel.cap = 0
       THEN /\ worker' = [worker EXCEPT ![r]["lineProcessor"] = "exited"]
            /\ held' = [held EXCEPT !["lineProcessor"] = NoHeld]
            /\ hist' = [hist EXCEPT !.offers = 0]
            /\ last' = [NoEvent EXCEPT !.op = "dropStatus", !.run = r,
                                       !.status = held["lineProcessor"].status]
            /\ UNCHANGED statusChannel
       ELSE \/ /\ shutdownChannel[r] = "closed"
               /\ worker' = [worker EXCEPT ![r]["lineProcessor"] = "exited"]
               /\ held' = [held EXCEPT !["lineProcessor"] = NoHeld]
               /\ hist' = [hist EXCEPT !.offers = 0]
               /\ last' = NoEvent
               /\ UNCHANGED statusChannel
            \/ /\ statusChannel.buf # << >>
               /\ statusChannel' = [statusChannel EXCEPT !.buf = Tail(@)]
               /\ UNCHANGED hist
               /\ held' = [held EXCEPT !["lineProcessor"].evicted =
                              Append(@, Head(statusChannel.buf))]
               /\ worker' = [worker EXCEPT ![r]["lineProcessor"] = "publish"]
               /\ last' = [NoEvent EXCEPT !.op = "evict", !.run = r,
                                          !.status = Head(statusChannel.buf)]
            \/ /\ shutdownChannel[r] # "closed"
               /\ statusChannel.buf = << >>
               /\ worker' = [worker EXCEPT ![r]["lineProcessor"] = "publish"]
               /\ last' = NoEvent
               /\ UNCHANGED << statusChannel, held, hist >>
    /\ UNCHANGED consumer
    /\ UNCHANGED << ConfigService, LoggerService, config, serialPort,
                    supportedCatStates, maxCatPrefixLen, initialized, started,
                    initOnce, mu, currentRun, sendChannel, processingChannel,
                    shutdownChannel, nextRun, nextChan, pc, local >>

\* a consumer of the channel that StatusChannel returned receives from it:
\* it takes the oldest status, or waits for the next one
ConsumerReceive ==
    /\ consumer = "none"
    /\ IF statusChannel.buf # << >>
       THEN /\ statusChannel' = [statusChannel EXCEPT !.buf = Tail(@)]
            /\ last' = [NoEvent EXCEPT !.op = "receive", !.at = "consumer",
                                       !.status = Head(statusChannel.buf)]
            /\ UNCHANGED consumer
       ELSE /\ consumer' = "receiving"
            /\ last' = NoEvent
            /\ UNCHANGED statusChannel
    /\ UNCHANGED << held, worker >>
    /\ UNCHANGED << ConfigService, LoggerService, config, serialPort,
                    supportedCatStates, maxCatPrefixLen, initialized, started,
                    initOnce, mu, currentRun, sendChannel, processingChannel,
                    shutdownChannel, nextRun, nextChan, pc, local, hist >>

(***************************************************************************)
(* EnqueueCommand.  It takes no lock: the two atomic loads and the checks  *)
(* on the immutable configuration are one step, the non-blocking send on   *)
(* sendChannel is a second one.                                            *)
(***************************************************************************)
\* commandLookup: the first configured command of that name
RECURSIVE lookupFrom(_, _, _)
lookupFrom(cmds, i, name) ==
    IF i > Len(cmds) THEN [err |-> errLookup, cmd |-> [Name |-> "", Cmd |-> << >>]]
    ELSE IF cmds[i].Name = name THEN [err |-> "nil", cmd |-> cmds[i]]
    ELSE lookupFrom(cmds, i + 1, name)

commandLookup(name) == lookupFrom(config.CatCommands, 1, name)

\* validateCommandFormat: the count of "%s" against the count of parameters
validateCommandFormat(command, params) ==
    IF CountPercentS(command) # Len(params) THEN errFormat ELSE "nil"

\* EnqueueChecks with the command looked up before the started flag is read
EnqueueChecksLookupFirst(name, params) ==
    IF ~initialized THEN [err |-> errMsgServiceNotInit, cmd |-> << >>]
    ELSE LET catCmd == commandLookup(name)
         IN  IF catCmd.err # "nil" THEN [err |-> errLookup, cmd |-> << >>]
             ELSE IF ~started THEN [err |-> errMsgServiceNotStarted, cmd |-> << >>]
             ELSE IF validateCommandFormat(catCmd.cmd.Cmd, params) # "nil"
             THEN [err |-> errFormat, cmd |-> << >>]
             ELSE [err |-> "nil", cmd |-> Sprintf(catCmd.cmd.Cmd, params)]

\* what EnqueueCommand decides before it touches sendChannel: the error it
\* returns, or "nil" and the formatted command
EnqueueChecks(name, params) ==
    IF ~initialized THEN [err |-> errMsgServiceNotInit, cmd |-> << >>]
    ELSE IF ~started THEN [err |-> errMsgServiceNotStarted, cmd |-> << >>]
    ELSE LET catCmd == commandLookup(name)
         IN  IF catCmd.err # "nil" THEN [err |-> errLookup, cmd |-> << >>]
             ELSE IF validateCommandFormat(catCmd.cmd.Cmd, params) # "nil"
             THEN [err |-> errFormat, cmd |-> << >>]
             ELSE [err |-> "nil", cmd |-> Sprintf(catCmd.cmd.Cmd, params)]

\* EnqueueCheck as it would be if commandLookup returned a pointer to the
\* configured command: the command is formatted in the configuration
EnqueueCheckInPlace(c, name, params) ==
    /\ pc[c] = "idle"
    /\ LET checked == EnqueueChecks(name, params)
       IN  IF checked.err # "nil"
           THEN /\ pc' = pc
                /\ local' = local
                /\ config' = config
                /\ last' = [Returned("EnqueueCommand", c, checked.err)
                               EXCEPT !.name = name, !.params = params]
           ELSE /\ pc' = [pc EXCEPT ![c] = "Enqueue:send"]
                /\ local' = [local EXCEPT ![c].name = name, ![c].params = params,
                                          ![c].cmd = checked.cmd]
                /\ config' = [config EXCEPT !.CatCommands =
                                 [i \in DOMAIN @ |->
                                     IF @[i].Name = name
                                        /\ \A j \in 1 .. (i - 1) : @[j].Name # name
                                     THEN [@[i] EXCEPT !.Cmd = checked.cmd]
                                     ELSE @[i]]]
                /\ last' = [NoEvent EXCEPT !.name = name, !.params = params]
    /\ UNCHANGED << held, consumer >>
    /\ UNCHANGED << ConfigService, LoggerService, serialPort,
                    supportedCatStates, maxCatPrefixLen, initialized, started,
                    initOnce, mu, currentRun, statusChannel, sendChannel,
                    processingChannel, shutdownChannel, worker, nextRun, nextChan,
                    hist >>

EnqueueCheck(c, name, params) ==
    /\ pc[c] = "idle"
    /\ LET checked == EnqueueChecks(name, params)
       IN  IF checked.err # "nil"
           THEN /\ pc' = pc
                /\ local' = local
                /\ last' = [Returned("EnqueueCommand", c, checked.err)
                               EXCEPT !.name = name, !.params = params]
           ELSE /\ pc' = [pc EXCEPT ![c] = "Enqueue:send"]
                /\ local' = [local EXCEPT ![c].name = name, ![c].params = params,
                                          ![c].cmd = checked.cmd]
                /\ last' = [NoEvent EXCEPT !.name = name, !.params = params]
    /\ UNCHANGED << held, consumer >>
    /\ UNCHANGED << ConfigService, LoggerService, config, serialPort,
                    supportedCatStates, maxCatPrefixLen, initialized, started,
                    initOnce, mu, currentRun, statusChannel, sendChannel,
                    processingChannel, shutdownChannel, worker, nextRun, nextChan,
                    hist >>

\* EnqueueSend with a plain send in place of the select with a default case:
\* the call waits for room in the channel
EnqueueSendNoDefault(c) ==
    /\ pc[c] = "Enqueue:send"
    /\ IF sendChannel.id = 0
       THEN /\ Return("EnqueueCommand", c, errSendClosed)
            /\ UNCHANGED sendChannel
       ELSE /\ sendChannel' = [sendChannel EXCEPT !.buf =
                                  Append(@, [Name |-> local[c].name,
                                             Cmd |-> local[c].cmd,
                                             run |-> currentRun])]
            /\ Len(sendChannel.buf) < sendChannel.cap
            /\ pc' = [pc EXCEPT ![c] = "idle"]
            /\ local' = [local EXCEPT ![c] = NoLocal]
            /\ last' = [Returned("EnqueueCommand", c, "nil")
                           EXCEPT !.name = local[c].name,
                                  !.params = local[c].params,
                                  !.cmd = local[c].cmd]
    /\ UNCHANGED << held, consumer >>
    /\ UNCHANGED << ConfigService, LoggerService, config, serialPort,
                    supportedCatStates, maxCatPrefixLen, initialized, started,
                    initOnce, mu, currentRun, statusChannel, processingChannel,
                    shutdownChannel, worker, nextRun, nextChan, hist >>

\* select { case s.sendChannel <- catCmd: ... default: ... }
EnqueueSend(c) ==
    /\ pc[c] = "Enqueue:send"
    /\ IF sendChannel.id = 0
       THEN /\ Return("EnqueueCommand", c, errSendClosed)
            /\ UNCHANGED sendChannel
       ELSE IF Len(sendChannel.buf) < sendChannel.cap
       THEN /\ sendChannel' = [sendChannel EXCEPT !.buf =
                                  Append(@, [Name |-> local[c].name,
                                             Cmd |-> local[c].cmd,
                                             run |-> currentRun])]
            /\ pc' = [pc EXCEPT ![c] = "idle"]
            /\ local' = [local EXCEPT ![c] = NoLocal]
            /\ last' = [Returned("EnqueueCommand", c, "nil")
                           EXCEPT !.name = local[c].name,
                                  !.params = local[c].params,
                                  !.cmd = local[c].cmd]
       ELSE /\ pc' = [pc EXCEPT ![c] = "idle"]
            /\ local' = [local EXCEPT ![c] = NoLocal]
            /\ last' = [Returned("EnqueueCommand", c, errSendFull)
                           EXCEPT !.name = local[c].name,
                                  !.params = local[c].params]
            /\ UNCHANGED sendChannel
    /\ UNCHANGED << held, consumer >>
    /\ UNCHANGED << ConfigService, LoggerService, config, serialPort,
                    supportedCatStates, maxCatPrefixLen, initialized, started,
                    initOnce, mu, currentRun, statusChannel, processingChannel,
                    shutdownChannel, worker, nextRun, nextChan, hist >>

(***************************************************************************)
(* The service under concurrent callers.                                   *)
(***************************************************************************)
\* the characters of "CMD %s %s", the template of the package's test
TestTemplate == << "C", "M", "D", " ", "%", "s", " ", "%", "s" >>

RigConfig(sendSize, states, commands) ==
    [nil |-> FALSE, SendChannelSize |-> sendSize, ProcessingChannelSize |-> 1,
     CatStates |-> states, CatCommands |-> commands]

GoodService(rig) ==
    [nil |-> FALSE, RequiredConfigsErr |-> FALSE, DefaultRigID |-> 1,
     RigConfigByIDErr |-> FALSE, Valid |-> TRUE, Rig |-> rig]

CatState(prefix) == [Prefix |-> prefix, Markers |-> << >>, Data |-> << >>]

CatStateWith(prefix, markers) == [CatState(prefix) EXCEPT !.Markers = markers]

\* the fields of a Service value before Initialize
Constructed ==
    /\ config = NilConfig
    /\ serialPort = "nil"
    /\ supportedCatStates = << >>
    /\ maxCatPrefixLen = 0
    /\ initialized = FALSE
    /\ started = FALSE
    /\ initOnce = FALSE
    /\ mu = 0
    /\ currentRun = 0
    /\ statusChannel = NilChan
    /\ sendChannel = NilChan
    /\ processingChannel = NilChan
    /\ shutdownChannel = [r \in Runs |-> "nil"]
    /\ worker = [r \in Runs |-> [w \in Workers |-> "nil"]]
    /\ nextRun = 0
    /\ nextChan = 0
    /\ pc = [c \in Callers |-> "idle"]
    /\ local = [c \in Callers |-> NoLocal]
    /\ last = NoEvent
    /\ hist = [bodyRuns |-> 0, firstInit |-> "nil", closes |-> 0, closeFails |-> 0,
               signals |-> [r \in Runs |-> 0], offers |-> 0]
    /\ held = [w \in Workers |-> NoHeld]
    /\ consumer = "none"

\* a Service built in memory, the way the package's tests build one
\* (src/service_test.go:175-181): the fields are set directly, the channels
\* are made with the capacities wanted, and initialized is stored by hand
InMemoryService(rig, statusCap) ==
    /\ ConfigService = GoodService(rig)
    /\ LoggerService = "logger"
    /\ config = rig
    /\ serialPort = "nil"
    /\ supportedCatStates = initializeStateSet(rig).table
    /\ maxCatPrefixLen = initializeStateSet(rig).maxLen
    /\ initialized = TRUE
    /\ started = FALSE
    /\ initOnce = FALSE
    /\ mu = 0
    /\ currentRun = 0
    /\ statusChannel = MakeChan(1, statusCap)
    /\ sendChannel = MakeChan(2, rig.SendChannelSize)
    /\ processingChannel = MakeChan(3, rig.ProcessingChannelSize)
    /\ shutdownChannel = [r \in Runs |-> "nil"]
    /\ worker = [r \in Runs |-> [w \in Workers |-> "nil"]]
    /\ nextRun = 0
    /\ nextChan = 3
    /\ pc = [c \in Callers |-> "idle"]
    /\ local = [c \in Callers |-> NoLocal]
    /\ hist = [bodyRuns |-> 0, firstInit |-> "nil", closes |-> 0, closeFails |-> 0,
               signals |-> [r \in Runs |-> 0], offers |-> 0]
    /\ consumer = "none"

Init ==
    /\ \E size \in 1 .. MaxSendChannelSize :
          ConfigService =
              GoodService(RigConfig(size, << CatState(<< "F", "A" >>) >>,
                                    << [Name |-> "INIT", Cmd |-> << "C", "%", "s" >>] >>))
    /\ LoggerService \in {"nil", "logger"}
    /\ Constructed

Next ==
    \/ \E c \in Callers : Initialize(c)
    \/ \E c \in Callers : StartEnter(c)
    \/ \E c \in Callers : StartLock(c)
    \/ \E c \in Callers : StartOpen(c)
    \/ \E c \in Callers : StartStore(c)
    \/ \E c \in Callers : StopEnter(c)
    \/ \E c \in Callers : StopLock(c)
    \/ \E c \in Callers : StopSignal(c)
    \/ \E c \in Callers : StopClose(c)
    \/ \E c \in Callers, name \in {"INIT", "READ"}, params \in {<< >>, << "one" >>} :
          EnqueueCheck(c, name, params)
    \/ \E c \in Callers : EnqueueSend(c)
    \/ \E r \in Runs, w \in Workers : WorkerExit(r, w)
    \/ \E r \in Runs : serialPortSender(r)

Spec == Init /\ [][Next]_vars

(***************************************************************************)
(* Initialize over the configurations a caller can hand it: a missing      *)
(* config service or logger, each failure of the config service, an        *)
(* invalid configuration, and every list of state prefixes.                *)
(***************************************************************************)
PrefixChars == {" ", "a"}

Prefixes == SeqsUpTo(PrefixChars, MaxPrefixLen)

StateLists == SeqsUpTo({ CatState(p) : p \in Prefixes }, MaxCatStates)

InitRig(states) ==
    RigConfig(1, states, << [Name |-> "INIT", Cmd |-> << "C", "%", "s" >>] >>)

FaultyServices ==
    LET good == GoodService(InitRig(<< CatState(<< "a" >>) >>))
    IN  { NilService,
          [good EXCEPT !.RequiredConfigsErr = TRUE],
          [good EXCEPT !.DefaultRigID = 0],
          [good EXCEPT !.RigConfigByIDErr = TRUE],
          [good EXCEPT !.Valid = FALSE],
          [good EXCEPT !.Valid = FALSE, !.Rig = InitRig(<< CatState(<< " " >>) >>)] }

InitInit ==
    /\ ConfigService \in FaultyServices \cup { GoodService(InitRig(l)) : l \in StateLists }
    /\ LoggerService \in {"nil", "logger"}
    /\ Constructed

NextInit == \E c \in Callers : Initialize(c)

SpecInit == InitInit /\ [][NextInit]_vars

(***************************************************************************)
(* EnqueueCommand over the templates a configuration can hold: one caller  *)
(* initializes and starts the service and enqueues the command "CMD" with  *)
(* zero or more parameters; the Sender writes what was queued.             *)
(***************************************************************************)
TemplateTokens == { << "C" >>, << "s" >>, << "%", "s" >>, << "%", "%" >> }

Templates ==
    { Flatten(ts) : ts \in SeqsUpTo(TemplateTokens, MaxTemplateTokens) } \cup {TestTemplate}

ParamValues == << "one", "two", "three", "four", "five" >>

ParamLists == { SubSeq(ParamValues, 1, k) : k \in 0 .. MaxParams }

InitCmd ==
    /\ \E tpl \in Templates :
          ConfigService =
              GoodService(RigConfig(1, << CatState(<< "F", "A" >>) >>,
                                    << [Name |-> "CMD", Cmd |-> tpl] >>))
    /\ LoggerService = "logger"
    /\ Constructed

NextCmd ==
    \/ Initialize(1)
    \/ StartEnter(1)
    \/ StartLock(1)
    \/ StartOpen(1)
    \/ StartStore(1)
    \/ \E params \in ParamLists : EnqueueCheck(1, "CMD", params)
    \/ EnqueueSend(1)
    \/ \E r \in Runs : serialPortSender(r)

SpecCmd == InitCmd /\ [][NextCmd]_vars

(***************************************************************************)
(* The State Matcher over registered prefixes and lines: the service is    *)
(* initialized with a list of states and lookupCatState is called on       *)
(* every line made of a few tokens.                                        *)
(***************************************************************************)
MatchPrefixes ==
    { << "A", "B" >>, << "A", "B", "C", "D" >>, << "A" >>, << "a", "b", " " >>,
      << "C", "D" >> }

LineTokens ==
    { << "A", "B" >>, << "a", "b" >>, << "C", "D" >>, << "x" >>, << " " >>, << "A" >> }

MatchLines == { Flatten(ts) : ts \in SeqsUpTo(LineTokens, MaxLineTokens) }

InitMatch ==
    /\ \E l \in SeqsUpTo({ CatState(p) : p \in MatchPrefixes }, MaxCatStates) :
          InMemoryService(InitRig(l), 1)
    /\ \E line \in MatchLines :
          last = [NoEvent EXCEPT !.op = "ReadResponseBytes", !.line = line]
    /\ held = [w \in Workers |-> NoHeld]

NextMatch == Lookup

SpecMatch == InitMatch /\ [][NextMatch]_vars

(***************************************************************************)
(* The Marker Extractor over markers and payloads: a matched state waits   *)
(* in the processing queue of a service built in memory, the service is    *)
(* started and the Processor takes the state.                              *)
(***************************************************************************)
Marker(index, length) ==
    [Tag |-> "", Index |-> index, Length |-> length, ValueMappings |-> << >>]

MarkerPool ==
    { Marker(2, 3), Marker(4, 10), Marker(10, 1), Marker(0 - 1, 2), Marker(0, 0),
      Marker(1, MaxInt), Marker(3, 0 - 1), Marker(5, 1), Marker(0, 5),
      [Marker(2, 3) EXCEPT !.ValueMappings =
          << [Key |-> << "3", "4" >>, Value |-> << "n", "o" >>],
             [Key |-> << "3", "4", "5" >>, Value |-> << "o", "k" >>] >>] }

TagAt(i) == << "a", "b", "c", "d", "e" >>[i]

\* lists of markers whose tags differ
MarkerLists ==
    { [i \in DOMAIN ms |-> [ms[i] EXCEPT !.Tag = TagAt(i)]] :
        ms \in SeqsUpTo(MarkerPool, MaxMarkers) }

Payloads == { << "1", "2", "3", "4", "5" >>, << >> }

InitMark ==
    /\ \E ms \in MarkerLists :
          InMemoryService(InitRig(<< CatStateWith(<< "F", "A" >>, ms) >>), 1)
    /\ last = NoEvent
    /\ held = [w \in Workers |-> NoHeld]

NextMark ==
    \/ StartEnter(1)
    \/ StartLock(1)
    \/ StartOpen(1)
    \/ StartStore(1)
    \/ \E r \in Runs : ListenerTick(r)
    \/ \E r \in Runs, data \in Payloads :
          ReadResponseBytes(r, "nil", << "F", "A" >> \o data)
    \/ \E r \in Runs : ListenerOffer(r)
    \/ \E r \in Runs : lineProcessor(r)

SpecMark == InitMark /\ [][NextMark]_vars

(***************************************************************************)
(* The inbound half of the pipeline, driven by one caller: a service built *)
(* in memory with a status mailbox of capacity 0 or more is started and    *)
(* stopped, the transport returns lines, timeouts and errors, the Listener *)
(* matches and offers, the Processor extracts and publishes, and a         *)
(* consumer may receive from the status mailbox.                           *)
(***************************************************************************)
RunRig ==
    RigConfig(1,
              << CatStateWith(<< "F", "A" >>,
                              << [Marker(0, 1) EXCEPT !.Tag = "X"] >>) >>,
              << [Name |-> "INIT", Cmd |-> << "C", "%", "s" >>] >>)

RunLines == { << "F", "A", "1" >>, << "F", "A", "2" >> }

ReadErrors == {"context deadline exceeded", "read failed"}

InitPublish ==
    /\ \E statusCap \in 0 .. MaxStatusCap : InMemoryService(RunRig, statusCap)
    /\ last = NoEvent
    /\ held = [w \in Workers |-> NoHeld]

NextPublish ==
    \/ StartEnter(1)
    \/ StartLock(1)
    \/ StartOpen(1)
    \/ StartStore(1)
    \/ StopEnter(1)
    \/ StopLock(1)
    \/ StopSignal(1)
    \/ StopClose(1)
    \/ \E r \in Runs, w \in Workers : WorkerExit(r, w)
    \/ \E r \in Runs : ListenerTick(r)
    \/ \E r \in Runs, line \in RunLines : ReadResponseBytes(r, "nil", line)
    \/ \E r \in Runs, err \in ReadErrors : ReadResponseBytes(r, err, << >>)
    \/ \E r \in Runs : ListenerOffer(r)
    \/ \E r \in Runs : lineProcessor(r)
    \/ \E r \in Runs : sendStatusWithEviction(r)
    \/ \E r \in Runs : tryEvictOldestStatus(r)
    \/ ConsumerReceive

SpecPublish == InitPublish /\ [][NextPublish]_vars

(***************************************************************************)
(* Stopping a run whose workers are busy with the transport: one caller    *)
(* starts and stops the service and enqueues commands, the Listener reads  *)
(* (the transport returns timeouts, errors and lines that match nothing)   *)
(* and the Sender writes.                                                  *)
(***************************************************************************)
InitStop ==
    /\ InMemoryService(RunRig, 1)
    /\ last = NoEvent
    /\ held = [w \in Workers |-> NoHeld]

NextStop ==
    \/ StartEnter(1)
    \/ StartLock(1)
    \/ StartOpen(1)
    \/ StartStore(1)
    \/ StopEnter(1)
    \/ StopLock(1)
    \/ StopSignal(1)
    \/ StopClose(1)
    \/ EnqueueCheck(1, "INIT", << "one" >>)
    \/ EnqueueSend(1)
    \/ \E r \in Runs, w \in Workers : WorkerExit(r, w)
    \/ \E r \in Runs : ListenerTick(r)
    \/ \E r \in Runs : ReadResponseBytes(r, "nil", << "Z", "Z" >>)
    \/ \E r \in Runs, err \in ReadErrors : ReadResponseBytes(r, err, << >>)
    \/ \E r \in Runs : SenderReceive(r)
    \/ \E r \in Runs : WriteCommand(r)

SpecStop == InitStop /\ [][NextStop]_vars

(***************************************************************************)
(* SpecStop with the scheduling the code gives.  A select whose shutdown   *)
(* case is ready takes that case sooner or later, a caller inside Stop     *)
(* goes on, and ReadResponseBytes returns because its context has a        *)
(* timeout.  WriteCommand is called with context.Background(): nothing in  *)
(* the code makes it return, so it has no fairness condition.              *)
(***************************************************************************)
ReadReturns(r) ==
    \/ ReadResponseBytes(r, "nil", << "Z", "Z" >>)
    \/ \E err \in ReadErrors : ReadResponseBytes(r, err, << >>)

FairStop ==
    /\ \A r \in Runs, w \in Workers : SF_vars(WorkerExit(r, w))
    /\ \A r \in Runs : WF_vars(ReadReturns(r))
    /\ WF_vars(StopSignal(1))
    /\ WF_vars(StopClose(1))

SpecStopFair == SpecStop /\ FairStop

\* SpecStopFair over a transport whose WriteCommand always returns
SpecStopWriteReturns == SpecStopFair /\ \A r \in Runs : WF_vars(WriteCommand(r))

(***************************************************************************)
(* The calls of one caller on a Service whose Initialize fails or          *)
(* succeeds: every faulty collaborator of FaultyServices and one good      *)
(* configuration, with and without a logger.                               *)
(***************************************************************************)
InitCalls ==
    /\ ConfigService \in FaultyServices \cup
           { GoodService(InitRig(<< CatState(<< "a" >>) >>)) }
    /\ LoggerService \in {"nil", "logger"}
    /\ Constructed

NextCalls ==
    \/ Initialize(1)
    \/ StartEnter(1)
    \/ StartLock(1)
    \/ StartOpen(1)
    \/ StartStore(1)
    \/ StopEnter(1)
    \/ StopLock(1)
    \/ StopSignal(1)
    \/ StopClose(1)
    \/ \E name \in {"INIT", "READ"} : EnqueueCheck(1, name, << "one" >>)
    \/ EnqueueSend(1)
    \/ StatusChannel(1)
    \/ \E r \in Runs, w \in Workers : WorkerExit(r, w)

SpecCalls == InitCalls /\ [][NextCalls]_vars

(***************************************************************************)
(* The Listener and the Processor over every kind of read: a line of a     *)
(* state with a marker, a line of a state without markers, a line that     *)
(* matches no state, an empty line, a timeout and a read error.            *)
(***************************************************************************)
LinesRig ==
    RigConfig(1,
              << CatStateWith(<< "F", "A" >>,
                              << [Marker(0, 1) EXCEPT !.Tag = "X"] >>),
                 CatState(<< "F", "B" >>) >>,
              << [Name |-> "INIT", Cmd |-> << "C", "%", "s" >>] >>)

MatchedLines == { << "F", "A", "1" >>, << "F", "B", "1" >> }

UnmatchedLines == { << "Z", "Z" >> }

InitLines ==
    /\ InMemoryService(LinesRig, 1)
    /\ last = NoEvent
    /\ held = [w \in Workers |-> NoHeld]

NextLines ==
    \/ StartEnter(1)
    \/ StartLock(1)
    \/ StartOpen(1)
    \/ StartStore(1)
    \/ StopEnter(1)
    \/ StopLock(1)
    \/ StopSignal(1)
    \/ StopClose(1)
    \/ \E r \in Runs, w \in Workers : WorkerExit(r, w)
    \/ \E r \in Runs : ListenerTick(r)
    \/ \E r \in Runs, line \in MatchedLines : ReadResponseBytes(r, "nil", line)
    \/ \E r \in Runs, line \in UnmatchedLines : ReadResponseBytes(r, "nil", line)
    \/ \E r \in Runs : ReadResponseBytes(r, "nil", << >>)
    \/ \E r \in Runs, err \in ReadErrors : ReadResponseBytes(r, err, << >>)
    \/ \E r \in Runs : ListenerOffer(r)
    \/ \E r \in Runs : lineProcessor(r)
    \/ \E r \in Runs : sendStatusWithEviction(r)
    \/ \E r \in Runs : tryEvictOldestStatus(r)
    \/ ConsumerReceive

SpecLines == InitLines /\ [][NextLines]_vars

(***************************************************************************)
(* The Sender over a send channel that holds more than one command: a      *)
(* caller starts and stops the service and enqueues "INIT" with one of two *)
(* parameters; each write succeeds or fails.                               *)
(***************************************************************************)
SendRig ==
    RigConfig(MaxSendChannelSize, << CatState(<< "F", "A" >>) >>,
              << [Name |-> "INIT", Cmd |-> << "C", "%", "s" >>] >>)

SendParams == { << "1" >>, << "2" >> }

InitSend ==
    /\ InMemoryService(SendRig, 1)
    /\ last = NoEvent
    /\ held = [w \in Workers |-> NoHeld]

NextSend ==
    \/ StartEnter(1)
    \/ StartLock(1)
    \/ StartOpen(1)
    \/ StartStore(1)
    \/ StopEnter(1)
    \/ StopLock(1)
    \/ StopSignal(1)
    \/ StopClose(1)
    \/ \E params \in SendParams : EnqueueCheck(1, "INIT", params)
    \/ EnqueueSend(1)
    \/ \E r \in Runs, w \in Workers : WorkerExit(r, w)
    \/ \E r \in Runs : SenderReceive(r)
    \/ \E r \in Runs : WriteCommand(r)

SpecSend == InitSend /\ [][NextSend]_vars

(***************************************************************************)
(* The Marker Extractor over value mappings: the state "FA" has one marker *)
(* of two bytes with no mapping, or with a list of mappings in which keys  *)
(* repeat and values may be empty.                                         *)
(***************************************************************************)
Mapping(key, value) == [Key |-> key, Value |-> value]

MappingPool ==
    { Mapping(<< "1", "2" >>, << "a" >>), Mapping(<< "1", "2" >>, << "b" >>),
      Mapping(<< "3", "4" >>, << "c" >>), Mapping(<< "9", "9" >>, << >>) }

MappingLists == SeqsUpTo(MappingPool, MaxMappings)

MapPayloads == { << "1", "2", "x" >>, << "3", "4" >>, << "7", "7" >> }

InitMap ==
    /\ \E vms \in MappingLists :
          InMemoryService(
              InitRig(<< CatStateWith(<< "F", "A" >>,
                             << [Marker(0, 2) EXCEPT !.Tag = "X",
                                                     !.ValueMappings = vms] >>) >>),
              1)
    /\ last = NoEvent
    /\ held = [w \in Workers |-> NoHeld]

NextMap ==
    \/ StartEnter(1)
    \/ StartLock(1)
    \/ StartOpen(1)
    \/ StartStore(1)
    \/ \E r \in Runs : ListenerTick(r)
    \/ \E r \in Runs, data \in MapPayloads :
          ReadResponseBytes(r, "nil", << "F", "A" >> \o data)
    \/ \E r \in Runs : ListenerOffer(r)
    \/ \E r \in Runs : lineProcessor(r)

SpecMap == InitMap /\ [][NextMap]_vars

(***************************************************************************)
(* The whole service from its construction: one caller initializes,        *)
(* starts, stops and enqueues "INIT" with one of two parameters, while the *)
(* Listener reads a line of the state "FA", the Processor publishes its    *)
(* status and the Sender writes.                                           *)
(***************************************************************************)
InitFrame ==
    /\ ConfigService = GoodService(RunRig)
    /\ LoggerService = "logger"
    /\ Constructed

NextFrame ==
    \/ Initialize(1)
    \/ StartEnter(1)
    \/ StartLock(1)
    \/ StartOpen(1)
    \/ StartStore(1)
    \/ StopEnter(1)
    \/ StopLock(1)
    \/ StopSignal(1)
    \/ StopClose(1)
    \/ \E params \in SendParams : EnqueueCheck(1, "INIT", params)
    \/ EnqueueSend(1)
    \/ \E r \in Runs, w \in Workers : WorkerExit(r, w)
    \/ \E r \in Runs : ListenerTick(r)
    \/ \E r \in Runs : ReadResponseBytes(r, "nil", << "F", "A", "1" >>)
    \/ \E r \in Runs : ListenerOffer(r)
    \/ \E r \in Runs : lineProcessor(r)
    \/ \E r \in Runs : sendStatusWithEviction(r)
    \/ \E r \in Runs : tryEvictOldestStatus(r)
    \/ \E r \in Runs : SenderReceive(r)
    \/ \E r \in Runs : WriteCommand(r)

SpecFrame == InitFrame /\ [][NextFrame]_vars

(***************************************************************************)
(* What the claims speak of.                                               *)
(***************************************************************************)
\* the runs that have a goroutine still running
LiveRuns ==
    { r \in Runs : \E w \in Workers : worker[r][w] \notin {"nil", "exited"} }

Running == started /\ currentRun # 0
Stopped == ~started /\ currentRun = 0 /\ LiveRuns = {}

AllReturned == \A c \in Callers : pc[c] = "idle"

\* the placeholders of a template read as a format string: a "%" and the
\* verb after it, "%%" being a literal percent sign
RECURSIVE Placeholders(_)
Placeholders(tpl) ==
    IF Len(tpl) < 2 THEN 0
    ELSE IF tpl[1] # "%" THEN Placeholders(Tail(tpl))
    ELSE IF tpl[2] = "%" THEN Placeholders(SubSeq(tpl, 3, Len(tpl)))
    ELSE 1 + Placeholders(SubSeq(tpl, 3, Len(tpl)))

\* the template with its placeholders replaced by the parameters, in order
RECURSIVE Substituted(_, _)
Substituted(tpl, params) ==
    IF tpl = << >> THEN << >>
    ELSE IF tpl[1] # "%" \/ Len(tpl) < 2
    THEN << tpl[1] >> \o Substituted(Tail(tpl), params)
    ELSE IF tpl[2] = "%"
    THEN << "%" >> \o Substituted(SubSeq(tpl, 3, Len(tpl)), params)
    ELSE << Head(params) >> \o Substituted(SubSeq(tpl, 3, Len(tpl)), Tail(params))

\* the configured template of a command name, if the name is configured
Configured(name) ==
    \E i \in DOMAIN ConfigService.Rig.CatCommands :
        ConfigService.Rig.CatCommands[i].Name = name

TemplateOf(name) ==
    LET cmds == ConfigService.Rig.CatCommands
        i == CHOOSE i \in DOMAIN cmds :
                 /\ cmds[i].Name = name
                 /\ \A j \in 1 .. i - 1 : cmds[j].Name # name
    IN  cmds[i].Cmd

(***************************************************************************)
(* C1: under every interleaving of concurrent Start and Stop calls workers *)
(* are never double-launched.  At any moment at most one run has running   *)
(* workers and it is the current run; every run that was made has its      *)
(* Listener, its Sender and its Processor; and when all calls have         *)
(* returned on an initialized service the controller is either Running or  *)
(* Stopped.                                                                *)
(***************************************************************************)
C1_NoDoubleLaunch ==
    /\ Cardinality(LiveRuns) <= 1
    /\ LiveRuns \subseteq {currentRun}
    /\ \A r \in Runs :
          shutdownChannel[r] # "nil" => \A w \in Workers : worker[r][w] # "nil"
    /\ (AllReturned /\ initialized) => (Running \/ Stopped)

\* a second run is launched by one caller while another waits for the mutex
C1_Witness ==
    /\ nextRun = 2
    /\ \E c, d \in Callers :
          /\ pc[c] = "Start:store"
          /\ pc[d] \in {"Start:Lock", "Stop:Lock"}
    /\ \A w \in Workers : worker[1][w] = "exited" /\ worker[2][w] = "running"

(***************************************************************************)
(* C2, as claimed: the body of Initialize runs at most once, and every     *)
(* call of Initialize returns the outcome of the first call.               *)
(***************************************************************************)
C2_SameOutcomeEveryCall ==
    /\ hist.bodyRuns <= 1
    /\ last.op = "Initialize" => last.err = hist.firstInit

C4_IdempotentNoOps ==
    [][ \A c \in Callers :
          ( /\ \/ pc[c] = "Start:Lock" /\ started
               \/ pc[c] = "Stop:Lock" /\ ~started
            /\ pc'[c] # pc[c] )
          => /\ pc'[c] = "idle"
             /\ last'.op = (IF pc[c] = "Start:Lock" THEN "Start" ELSE "Stop")
             /\ last'.c = c
             /\ last'.err = "nil"
             /\ UNCHANGED << serialPort, currentRun, shutdownChannel, worker,
                             started, initialized, nextRun, mu, hist, sendChannel,
                             processingChannel, statusChannel >>
      ]_vars

\* a Start that found the service started has returned
C4_Witness ==
    /\ last.op = "Start"
    /\ last.at = "Start:Lock"
    /\ last.err = "nil"
    /\ started
    /\ \A w \in Workers : worker[currentRun][w] = "running"

(***************************************************************************)
(* C5: the lifecycle is restartable.  A Start that finds the controller    *)
(* not Running and whose open succeeds launches the run and returns        *)
(* success with the controller Running; a Stop whose close succeeds        *)
(* returns success with the controller Stopped; and a Start or Stop on an  *)
(* initialized service fails only when the transport's open or close does. *)
(***************************************************************************)
C5_Restartable ==
    [][ /\ \A c \in Callers :
              /\ (pc[c] = "Start:Lock" /\ ~started /\ pc'[c] # pc[c])
                 => pc'[c] = "Start:open"
              /\ (pc[c] = "Start:open" /\ serialPort' = "port")
                 => /\ pc'[c] = "Start:store"
                    /\ currentRun' # 0
                    /\ \A w \in Workers : worker'[currentRun'][w] = "running"
              /\ (pc[c] = "Start:store" /\ pc'[c] # pc[c])
                 => /\ started'
                    /\ currentRun' # 0
                    /\ last' = Returned("Start", c, "nil")
              /\ (pc[c] = "Stop:close" /\ pc'[c] # pc[c] /\ serialPort' = "nil")
                 => /\ ~started'
                    /\ currentRun' = 0
                    /\ last' = Returned("Stop", c, "nil")
        /\ (last'.op \in {"Start", "Stop"} /\ last'.err # "nil")
           => \/ last'.err = errMsgServiceNotInit /\ ~initialized
              \/ last'.err = errOpen /\ last'.at = "Start:open" /\ serialPort' = "nil"
              \/ last'.err = errClose /\ last'.at = "Stop:close" /\ serialPort' = "port"
      ]_vars

\* the Stop of the second Start/Stop cycle has returned success
C5_Witness ==
    /\ last.op = "Stop"
    /\ last.at = "Stop:close"
    /\ last.err = "nil"
    /\ nextRun = 2
    /\ hist.closeFails = 0
    /\ ~started

(***************************************************************************)
(* C6, as claimed: for every Start that opened the transport, close is     *)
(* called exactly once before the next Start opens it again: never more    *)
(* than once since the last open, and once when the service is stopped     *)
(* with no call in progress.                                               *)
(***************************************************************************)
C6_CloseOncePerStart ==
    /\ hist.closes <= 1
    /\ (nextRun > 0 /\ ~started /\ mu = 0) => hist.closes = 1

(***************************************************************************)
(* C7: when the configuration holds a state whose normalized prefix is     *)
(* empty, the service never becomes Initialized, the call of Initialize    *)
(* that runs the body fails, and it fails with the empty-prefix error      *)
(* whenever the checks that come before the state set pass.                *)
(***************************************************************************)
HasEmptyPrefix(cfg) ==
    \E i \in DOMAIN cfg.CatStates :
        ToUpper(TrimSpace(cfg.CatStates[i].Prefix)) = << >>

ReachesStateSet ==
    /\ ~ConfigService.nil
    /\ LoggerService # "nil"
    /\ getRigConfig.err = "nil"
    /\ ConfigService.Valid

C8_ArityAndSubstitution ==
    [][ \A c \in Callers :
          ( /\ pc[c] = "idle"
            /\ initialized
            /\ started
            /\ \/ pc'[c] = "Enqueue:send"
               \/ last'.op = "EnqueueCommand" /\ last'.c = c
            /\ Configured(last'.name) )
          => LET tpl == TemplateOf(last'.name)
             IN  IF Placeholders(tpl) = Len(last'.params)
                 THEN /\ pc'[c] = "Enqueue:send"
                      /\ local'[c].cmd = Substituted(tpl, last'.params)
                 ELSE /\ pc'[c] = "idle"
                      /\ last'.err = errFormat
                      /\ sendChannel' = sendChannel
      ]_vars

(***************************************************************************)
(* C9: EnqueueCommand reports the first check that fails, in the order     *)
(* NotInitialized, NotStarted, CommandNotFound, ArityMismatch, and leaves  *)
(* the send queue as it is; it goes on to the send only when all four      *)
(* checks pass.                                                            *)
(***************************************************************************)
FirstFailure(name, params) ==
    IF ~initialized THEN errMsgServiceNotInit
    ELSE IF ~started THEN errMsgServiceNotStarted
    ELSE IF ~Configured(name) THEN errLookup
    ELSE IF Placeholders(TemplateOf(name)) # Len(params) THEN errFormat
    ELSE "nil"

C9_CheckOrder ==
    [][ \A c \in Callers :
          ( /\ pc[c] = "idle"
            /\ \/ pc'[c] = "Enqueue:send"
               \/ last'.op = "EnqueueCommand" /\ last'.c = c )
          => LET expected == FirstFailure(last'.name, last'.params)
             IN  /\ sendChannel' = sendChannel
                 /\ IF expected = "nil"
                    THEN pc'[c] = "Enqueue:send"
                    ELSE pc'[c] = "idle" /\ last'.err = expected
      ]_vars

\* an unknown command on a service that is not started: NotStarted comes first
C9_Witness ==
    /\ last.op = "EnqueueCommand"
    /\ last.err = errMsgServiceNotStarted
    /\ last.name = "READ"
    /\ initialized
    /\ nextRun > 0

(***************************************************************************)
(* C10: EnqueueCommand never blocks and never overfills the send queue.    *)
(* The send step can always be taken; when the queue holds as many         *)
(* commands as its capacity the call returns the queue-full error and      *)
(* leaves the queue as it is; the queue never holds more than its          *)
(* capacity.                                                               *)
(***************************************************************************)
C10_NeverBlocksNeverOverfills ==
    [][ /\ Len(sendChannel'.buf) <= sendChannel'.cap
        /\ \A c \in Callers :
              /\ pc[c] = "Enqueue:send" => ENABLED EnqueueSend(c)
              /\ ( /\ pc[c] = "Enqueue:send"
                   /\ pc'[c] # pc[c]
                   /\ Len(sendChannel.buf) >= sendChannel.cap )
                 => /\ last'.op = "EnqueueCommand"
                    /\ last'.c = c
                    /\ last'.err = errSendFull
                    /\ sendChannel' = sendChannel
      ]_vars

\* a valid command has been refused by a full queue of capacity 2
C10_Witness ==
    /\ last.op = "EnqueueCommand"
    /\ last.err = errSendFull
    /\ sendChannel.cap = 2
    /\ Len(sendChannel.buf) = 2

(***************************************************************************)
(* C11..C20.                                                               *)
(***************************************************************************)
\* the Processor of run r takes a step
ProcessorStep(r) ==
    \/ worker'[r]["lineProcessor"] # worker[r]["lineProcessor"]
    \/ last'.op \in {"publish", "evict", "dropStatus"} /\ last'.run = r

(***************************************************************************)
(* C11: with a status mailbox of capacity 1 the mailbox never holds two    *)
(* snapshots, and a snapshot that is published is then the only one in     *)
(* it.  While no consumer receives and the run is not cancelled, the       *)
(* Processor that finds the mailbox full evicts the snapshot in it, tries  *)
(* again and publishes its own: after A and then B, exactly B.             *)
(***************************************************************************)
C11_LatestWins ==
    [][ statusChannel.cap = 1 =>
          /\ Len(statusChannel'.buf) <= 1
          /\ \A r \in Runs :
                /\ (last'.op = "publish" /\ last'.run = r /\ consumer = "none")
                   => /\ statusChannel'.buf = << held["lineProcessor"].status >>
                      /\ last'.status = held["lineProcessor"].status
                      /\ worker'[r]["lineProcessor"] = "running"
                /\ ( /\ ProcessorStep(r)
                     /\ consumer = "none"
                     /\ shutdownChannel[r] = "open"
                     /\ worker[r]["lineProcessor"] \in {"publish", "evict"} )
                   => IF worker[r]["lineProcessor"] = "publish"
                      THEN IF statusChannel.buf = << >>
                           THEN last'.op = "publish"
                           ELSE /\ worker'[r]["lineProcessor"] = "evict"
                                /\ UNCHANGED << statusChannel, held >>
                      ELSE /\ worker'[r]["lineProcessor"] = "publish"
                           /\ statusChannel'.buf = << >>
                           /\ held'["lineProcessor"].status =
                                  held["lineProcessor"].status
      ]_vars

\* the mailbox held the snapshot of "FA1"; the snapshot of "FA2" has been
\* published, has evicted it and is alone in the mailbox
C11_Witness ==
    /\ last.op = "publish"
    /\ last.status = { [Tag |-> "X", Value |-> << "2" >>] }
    /\ last.evicted = << { [Tag |-> "X", Value |-> << "1" >>] } >>
    /\ statusChannel.cap = 1
    /\ statusChannel.buf = << { [Tag |-> "X", Value |-> << "2" >>] } >>
    /\ consumer = "none"

(***************************************************************************)
(* C12: with a status mailbox of capacity 0 and no consumer waiting in a   *)
(* receive, a publish attempt does not block and ends in the snapshot      *)
(* being dropped: the mailbox stays empty and no call of any caller        *)
(* returns an error for it.                                                *)
(***************************************************************************)
C12_UnbufferedDrop ==
    [][ statusChannel.cap = 0 =>
          /\ statusChannel'.buf = << >>
          /\ \A r \in Runs :
                ( /\ consumer = "none"
                  /\ shutdownChannel[r] = "open"
                  /\ worker[r]["lineProcessor"] \in {"publish", "evict"} )
                => /\ IF worker[r]["lineProcessor"] = "publish"
                      THEN ENABLED sendStatusWithEviction(r)
                      ELSE ENABLED tryEvictOldestStatus(r)
                   /\ ProcessorStep(r)
                      => /\ IF worker[r]["lineProcessor"] = "publish"
                            THEN /\ worker'[r]["lineProcessor"] = "evict"
                                 /\ UNCHANGED held
                            ELSE /\ last'.op = "dropStatus"
                                 /\ last'.status = held["lineProcessor"].status
                                 /\ worker'[r]["lineProcessor"] # "publish"
                         /\ last'.c = 0
                         /\ last'.err = "nil"
                         /\ UNCHANGED << pc, local >>
      ]_vars

\* the snapshot of "FA1" has been dropped at an unbuffered mailbox
C12_Witness ==
    /\ last.op = "dropStatus"
    /\ last.status = { [Tag |-> "X", Value |-> << "1" >>] }
    /\ statusChannel.cap = 0
    /\ statusChannel.buf = << >>
    /\ consumer = "none"

IsPrefix(k, str) == Len(k) <= Len(str) /\ SubSeq(str, 1, Len(k)) = k

Keys == DOMAIN supportedCatStates

Longest(S) == CHOOSE k \in S : \A j \in S : Len(j) <= Len(k)

\* the registered prefixes of two bytes or more that begin the upper-cased line
Beginning(line) ==
    { k \in Keys : Len(k) >= 2 /\ IsPrefix(k, ToUpper(line)) }

\* what the claim of C13 has lookup return for a line
LongestPrefixOutcome(line) ==
    IF Beginning(line) = {}
    THEN last.err = "no match"
    ELSE /\ last.err = "nil"
         /\ last.state.Prefix = supportedCatStates[Longest(Beginning(line))].Prefix
         /\ last.state.Markers = supportedCatStates[Longest(Beginning(line))].Markers

(***************************************************************************)
(* C13, as claimed: lookup returns the state of the longest registered     *)
(* prefix of two bytes or more that begins the upper-cased line, and no    *)
(* match when no such prefix begins it.                                    *)
(***************************************************************************)
C13_LongestPrefixWins ==
    last.op = "lookupCatState" => LongestPrefixOutcome(last.line)

(***************************************************************************)
(* C13, amended: lookup upper-cases the first n bytes of the line, n being *)
(* the longest registered key's length capped by the line's length and at  *)
(* least 2; for l from n down to 2 it trims the whitespace around the      *)
(* first l bytes and looks the result up; the longest l that hits wins,    *)
(* the bytes after the first l are the data, and no hit is no match.  When *)
(* the first n bytes hold no whitespace this is the longest registered     *)
(* prefix of two bytes or more that begins the upper-cased line.           *)
(***************************************************************************)
ProbeWindow(line) == Max(2, Min(maxCatPrefixLen, Len(line)))

ProbeHits(line) ==
    { l \in 2 .. ProbeWindow(line) :
        /\ l <= Len(line)
        /\ TrimSpace(SubSeq(ToUpper(line), 1, l)) \in Keys }

C13_LongestProbeWins ==
    last.op = "lookupCatState" =>
        LET line == last.line
            hits == ProbeHits(line)
            l == CHOOSE h \in hits : \A g \in hits : g <= h
        IN  /\ IF hits = {}
               THEN last.err = "no match" /\ last.state = NoState
               ELSE /\ last.err = "nil"
                    /\ last.state =
                           [supportedCatStates[TrimSpace(SubSeq(ToUpper(line), 1, l))]
                               EXCEPT !.Data = SubSeq(line, l + 1, Len(line))]
            /\ (\A i \in 1 .. Min(ProbeWindow(line), Len(line)) : ~IsSpace(line[i]))
               => LongestPrefixOutcome(line)

\* with "AB" and "ABCD" registered, the line " AB", which begins with
\* neither, has matched "AB"
C13_Witness ==
    /\ last.op = "lookupCatState"
    /\ last.line = << " ", "A", "B" >>
    /\ last.err = "nil"
    /\ last.state.Data = << >>
    /\ Keys = { << "A", "B" >>, << "A", "B", "C", "D" >> }

(***************************************************************************)
(* C14: for every line shorter than two bytes lookup returns no match,     *)
(* whatever is registered, one-byte prefixes included.                     *)
(***************************************************************************)
C14_ShortLineNoMatch ==
    (last.op = "lookupCatState" /\ Len(last.line) < 2)
    => (last.err = "no match" /\ last.state = NoState)

\* the line "A" has found no match although the prefix "A" is registered
C14_Witness ==
    /\ last.op = "lookupCatState"
    /\ last.line = << "A" >>
    /\ last.err = "no match"
    /\ << "A" >> \in Keys

(***************************************************************************)
(* C15, as claimed: for every marker the Processor extracts                *)
(* data[index : min(index+length, len(data))]; a marker whose index is     *)
(* outside [0, len(data)) or whose clamped range is empty gives no entry   *)
(* for its tag, and every other marker gives its entry whatever markers    *)
(* were skipped before it.                                                 *)
(***************************************************************************)
HasEntry(status, tag) == \E e \in status : e.Tag = tag

C15_MarkerExtraction ==
    (last.op = "lineProcessor" /\ last.err = "nil") =>
        LET data == last.state.Data
            status == last.status
        IN  \A i \in DOMAIN last.state.Markers :
               LET m == last.state.Markers[i]
                   end == Min(m.Index + m.Length, Len(data))
               IN  IF m.Index >= 0 /\ m.Index < Len(data) /\ m.Index < end
                   THEN /\ HasEntry(status, m.Tag)
                        /\ m.ValueMappings = << >> =>
                              [Tag |-> m.Tag,
                               Value |-> SubSeq(data, m.Index + 1, end)] \in status
                   ELSE ~HasEntry(status, m.Tag)

\* the same, for the markers whose index plus length does not overflow
C15_WithoutOverflow ==
    (\A i \in DOMAIN last.state.Markers :
        last.state.Markers[i].Index + last.state.Markers[i].Length <= MaxInt)
    => C15_MarkerExtraction

C20_BufferedMailbox ==
    [][ statusChannel.cap >= 1 =>
          \A r \in Runs, w \in Workers :
             (worker[r][w] # "exited" /\ worker'[r][w] = "exited")
             => shutdownChannel[r] = "closed"
      ]_vars

\* the function handed to initOnce.Do has run and has failed
InitializeFailed == hist.bodyRuns > 0 /\ hist.firstInit # "nil"

(***************************************************************************)
(* C17: once Initialize has failed the service is never initialized, the   *)
(* transport is never opened, no worker is launched and no channel is      *)
(* made or touched; a caller can make each of Start, Stop, EnqueueCommand  *)
(* and StatusChannel, and each returns the not-initialized error.          *)
(***************************************************************************)
C17_FailedInitialize ==
    [][ InitializeFailed =>
          /\ ~initialized /\ ~initialized'
          /\ serialPort' = "nil"
          /\ \A r \in Runs, w \in Workers : worker'[r][w] = "nil"
          /\ statusChannel' = NilChan
          /\ sendChannel' = NilChan
          /\ processingChannel' = NilChan
          /\ UNCHANGED << started, currentRun, shutdownChannel, nextRun, nextChan,
                          mu, hist >>
          /\ \A c \in Callers :
                pc[c] = "idle"
                => /\ pc'[c] = "idle"
                   /\ c = 1 => /\ ENABLED StartEnter(c)
                               /\ ENABLED StopEnter(c)
                               /\ ENABLED EnqueueCheck(c, "INIT", << "one" >>)
                               /\ ENABLED StatusChannel(c)
          /\ last'.op \in {"Start", "Stop", "EnqueueCommand", "StatusChannel"}
             => last'.err = errMsgServiceNotInit
          /\ last'.op \in {"Initialize", "Start", "Stop", "EnqueueCommand",
                           "StatusChannel"}
      ]_vars

\* Initialize has failed on an invalid rig id and a later Start has
\* returned the not-initialized error
C17_Witness ==
    /\ InitializeFailed
    /\ hist.firstInit = errMsgInvalidRigID
    /\ last.op = "Start"
    /\ last.err = errMsgServiceNotInit
    /\ ~initialized
    /\ serialPort = "nil"

\* a worker is inside a call on the transport
OnTransport(r) ==
    \/ worker[r]["serialPortListener"] = "read"
    \/ worker[r]["serialPortSender"] = "write"

(***************************************************************************)
(* C18: Stop on a started service first closes the run's shutdownChannel   *)
(* and changes nothing else; it calls Close on the port only when all      *)
(* three workers of the run have exited; the run is dropped and started    *)
(* is cleared only in the step in which the port has been closed.  A       *)
(* worker is inside a read or a write, and a read or a write returns,      *)
(* only while the port is open and Close has not been called on it.        *)
(***************************************************************************)
C18_StopOrder ==
    [][ /\ \A c \in Callers :
             /\ (pc[c] = "Stop:signal" /\ pc'[c] # "Stop:signal")
                => /\ pc'[c] = "Stop:close"
                   /\ currentRun # 0
                   /\ local'[c].run = currentRun
                   /\ shutdownChannel'[currentRun] = "closed"
                   /\ UNCHANGED << serialPort, started, currentRun, worker >>
             /\ (pc[c] = "Stop:close" /\ pc'[c] # "Stop:close")
                => /\ shutdownChannel[local[c].run] = "closed"
                   /\ \A w \in Workers : worker[local[c].run][w] = "exited"
                   /\ hist'.closes = hist.closes + 1
                   /\ last'.op = "Stop"
                   /\ IF last'.err = "nil"
                      THEN serialPort' = "nil" /\ currentRun' = 0 /\ ~started'
                      ELSE UNCHANGED << serialPort, currentRun, started >>
        /\ (started /\ ~started') => \E c \in Callers : pc[c] = "Stop:close"
        /\ (currentRun # 0 /\ currentRun' = 0)
           => \E c \in Callers : pc[c] = "Stop:close"
        /\ last'.op \in {"ReadResponseBytes", "lookupCatState", "WriteCommand"}
           => serialPort = "port" /\ hist.closes = 0
        /\ \A r \in Runs :
              OnTransport(r)' => serialPort' = "port" /\ hist'.closes = 0
      ]_vars

\* Stop has returned nil on a run that was signalled once: its workers have
\* exited, the port is closed, the run is dropped and started is false
C18_Witness ==
    /\ last.op = "Stop"
    /\ last.err = "nil"
    /\ last.at = "Stop:close"
    /\ hist.signals[1] = 1
    /\ \A w \in Workers : worker[1][w] = "exited"
    /\ serialPort = "nil"
    /\ currentRun = 0
    /\ ~started

(***************************************************************************)
(* C19, as claimed: when the run's shutdownChannel is closed while the     *)
(* Listener is inside ReadResponseBytes, the Listener's next step is its   *)
(* exit: it does not go on with what the read returns.                     *)
(***************************************************************************)
C19_ReadAbandoned ==
    [][ \A r \in Runs :
          ( /\ worker[r]["serialPortListener"] = "read"
            /\ shutdownChannel[r] = "closed"
            /\ worker'[r]["serialPortListener"] # "read" )
          => worker'[r]["serialPortListener"] = "exited"
      ]_vars

\* the run's workers have exited and no caller is inside Stop for it
RunStopped(r) ==
    /\ \A w \in Workers : worker[r][w] = "exited"
    /\ \A c \in Callers : pc[c] \in {"Stop:signal", "Stop:close"} => local[c].run # r

(***************************************************************************)
(* C16, as claimed: once a run's shutdownChannel is closed, every worker   *)
(* of the run eventually exits and the Stop that closed it eventually      *)
(* returns.                                                                *)
(***************************************************************************)
C16_CancelledRunStops ==
    \A r \in Runs : (shutdownChannel[r] = "closed") ~> RunStopped(r)

\* the Listener and the Processor of a cancelled run eventually exit
C16_ListenerAndProcessorExit ==
    \A r \in Runs :
       (shutdownChannel[r] = "closed")
       ~> ( /\ worker[r]["serialPortListener"] = "exited"
            /\ worker[r]["lineProcessor"] = "exited" )

(***************************************************************************)
(* C21..C30.                                                               *)
(***************************************************************************)
\* where the Processor of run r is
AtProcessor(r) == worker[r]["lineProcessor"]

(***************************************************************************)
(* C21: the Processor starts a publication only by receiving one matched   *)
(* line from the processing queue; while it publishes it receives no       *)
(* other line and keeps the same status; the step in which its send        *)
(* succeeds ends the publication: the Processor is back at the receive     *)
(* and holds no status that it could send again.                           *)
(***************************************************************************)
C21_OnePublicationPerLine ==
    [][ \A r \in Runs :
          /\ (AtProcessor(r) = "running" /\ AtProcessor(r)' = "publish")
             => /\ processingChannel.buf # << >>
                /\ processingChannel'.buf = Tail(processingChannel.buf)
                /\ Head(processingChannel.buf).Markers # << >>
                /\ held'["lineProcessor"].state = Head(processingChannel.buf)
                /\ UNCHANGED statusChannel
          /\ (AtProcessor(r) \in {"publish", "evict"})
             => /\ Len(processingChannel'.buf) >= Len(processingChannel.buf)
                /\ AtProcessor(r)' \in {"publish", "evict"}
                   => /\ held'["lineProcessor"].status = held["lineProcessor"].status
                      /\ last'.op # "publish"
                /\ AtProcessor(r)' = "running"
                   => /\ last'.op = "publish"
                      /\ last'.run = r
                      /\ last'.status = held["lineProcessor"].status
          /\ (last'.op = "publish" /\ last'.run = r)
             => /\ AtProcessor(r) = "publish"
                /\ AtProcessor(r)' = "running"
                /\ held'["lineProcessor"] = NoHeld
          /\ AtProcessor(r)' = "running" => held'["lineProcessor"] = NoHeld
      ]_vars

\* the status of a line has been sent and the Processor is back at the
\* receive, where the next matched line is waiting
C21_Witness ==
    /\ last.op = "publish"
    /\ last.run = 1
    /\ AtProcessor(1) = "running"
    /\ held["lineProcessor"] = NoHeld
    /\ Len(processingChannel.buf) = 1
    /\ statusChannel.buf = << last.status >>

\* where the Listener of run r is
AtListener(r) == worker[r]["serialPortListener"]

(***************************************************************************)
(* C22: the processing queue never holds more than its capacity, and a     *)
(* Listener that offers a matched state can always take its step,          *)
(* wherever the Processor is.  With the queue full and the run not         *)
(* cancelled the step drops the state: the queue is unchanged and the      *)
(* Listener is back at its tick.  With room the state is appended.         *)
(***************************************************************************)
C22_OfferNeverBlocks ==
    [][ /\ Len(processingChannel'.buf) <= processingChannel.cap
        /\ \A r \in Runs :
              AtListener(r) = "offer"
              => /\ ENABLED ListenerOffer(r)
                 /\ AtListener(r)' # "offer"
                    => /\ AtListener(r)' \in {"running", "exited"}
                       /\ held'["serialPortListener"] = NoHeld
                       /\ IF AtListener(r)' = "exited"
                          THEN /\ shutdownChannel[r] = "closed"
                               /\ UNCHANGED processingChannel
                          ELSE IF Len(processingChannel.buf) < processingChannel.cap
                          THEN /\ processingChannel'.buf =
                                      Append(processingChannel.buf,
                                             held["serialPortListener"].state)
                               /\ last'.op = "offer" /\ last'.err = "nil"
                          ELSE /\ UNCHANGED processingChannel
                               /\ last'.op = "offer"
                               /\ last'.err = "processing channel full"
                               /\ last'.state = held["serialPortListener"].state
      ]_vars

\* the Processor is busy with a publication, the queue is full, and the
\* Listener has dropped a matched state and is back at its tick
C22_Witness ==
    /\ last.op = "offer"
    /\ last.err = "processing channel full"
    /\ last.run = 1
    /\ Len(processingChannel.buf) = processingChannel.cap
    /\ AtListener(1) = "running"
    /\ AtProcessor(1) \in {"publish", "evict"}
    /\ shutdownChannel[1] = "open"

\* the line matches a registered prefix, in the way lookupCatState probes
\* for one
Matches(line) == ProbeHits(line) # {}

(***************************************************************************)
(* C23: a tick of the Listener is one read.  The read's return takes the   *)
(* Listener to the offer only if the read gave no error and a line that    *)
(* is not empty and matches a registered prefix; after an error, a         *)
(* timeout, an empty line or an unmatched line the Listener is back at     *)
(* its tick.  The return of a read puts nothing into the processing        *)
(* queue, and the queue grows only by the one state an offer appends.      *)
(***************************************************************************)
C23_OneReadOneOffer ==
    [][ \A r \in Runs :
          /\ (AtListener(r) = "running" /\ AtListener(r)' # "running")
             => AtListener(r)' \in {"read", "exited"}
          /\ (AtListener(r) = "read" /\ AtListener(r)' # "read")
             => /\ UNCHANGED processingChannel
                /\ last'.run = r
                /\ \/ /\ last'.op = "ReadResponseBytes"
                      /\ AtListener(r)' = "running"
                      /\ held'["serialPortListener"] = NoHeld
                   \/ /\ last'.op = "lookupCatState"
                      /\ last'.err = "no match"
                      /\ last'.line # << >>
                      /\ ~Matches(last'.line)
                      /\ AtListener(r)' = "running"
                   \/ /\ last'.op = "lookupCatState"
                      /\ last'.err = "nil"
                      /\ last'.line # << >>
                      /\ Matches(last'.line)
                      /\ \E key \in Keys :
                            last'.state.Prefix = supportedCatStates[key].Prefix
                      /\ held'["serialPortListener"].state = last'.state
                      /\ AtListener(r)' = "offer"
          /\ (AtListener(r) = "offer" /\ AtListener(r)' # "offer")
             => /\ AtListener(r)' \in {"running", "exited"}
                /\ \/ UNCHANGED processingChannel
                   \/ processingChannel'.buf =
                          Append(processingChannel.buf,
                                 held["serialPortListener"].state)
          /\ Len(processingChannel'.buf) > Len(processingChannel.buf)
             => \E q \in Runs : AtListener(q) = "offer" /\ AtListener(q)' = "running"
      ]_vars

\* a read has timed out: nothing is in the queue and the Listener is back
\* at its tick
C23_Witness ==
    /\ last.op = "ReadResponseBytes"
    /\ last.err = "context deadline exceeded"
    /\ last.run = 1
    /\ AtListener(1) = "running"
    /\ processingChannel.buf = << >>
    /\ shutdownChannel[1] = "open"

(***************************************************************************)
(* C27: when the Processor receives a matched state that has no markers,   *)
(* it publishes nothing: the status channel is left as it is and the       *)
(* Processor is again at the receive from the processing queue, holding    *)
(* no status.                                                              *)
(***************************************************************************)
C27_NoMarkersNoPublication ==
    [][ \A r \in Runs :
          ( /\ AtProcessor(r) = "running"
            /\ processingChannel.buf # << >>
            /\ Head(processingChannel.buf).Markers = << >>
            /\ processingChannel'.buf # processingChannel.buf
            /\ Len(processingChannel'.buf) < Len(processingChannel.buf) )
          => /\ UNCHANGED << statusChannel, consumer >>
             /\ AtProcessor(r)' = "running"
             /\ held'["lineProcessor"] = NoHeld
             /\ last'.op = "lineProcessor"
             /\ last'.err = "no markers"
             /\ last'.status = {}
      ]_vars

\* the status of "FA1" is in the mailbox and the Processor has received
\* the state of "FB1", which has no markers: the mailbox is as it was
C27_Witness ==
    /\ last.op = "lineProcessor"
    /\ last.err = "no markers"
    /\ last.state.Prefix = << "F", "B" >>
    /\ AtProcessor(1) = "running"
    /\ statusChannel.buf = << { [Tag |-> "X", Value |-> << "1" >>] } >>

\* where the Sender of run r is
AtSender(r) == worker[r]["serialPortSender"]

(***************************************************************************)
(* C24: the send channel is first in, first out between EnqueueCommand     *)
(* and the Sender.  It grows only at its end, by the command an            *)
(* EnqueueCommand that returns nil has formatted, and shrinks only at its  *)
(* head, by the command the Sender receives.  The Sender holds one         *)
(* command at a time and writes the one it holds; when the write returns,  *)
(* with or without an error, the command is gone from the Sender, the      *)
(* channel is as it was, and the Sender is back at its receive.            *)
(***************************************************************************)
C24_WritesInOrderOnce ==
    [][ /\ sendChannel' # sendChannel
           => \/ /\ \E c \in Callers :
                       /\ pc[c] = "Enqueue:send"
                       /\ sendChannel'.buf = Append(sendChannel.buf,
                              [Name |-> local[c].name, Cmd |-> local[c].cmd,
                               run |-> currentRun])
                 /\ last'.op = "EnqueueCommand" /\ last'.err = "nil"
              \/ /\ sendChannel.buf # << >>
                 /\ sendChannel'.buf = Tail(sendChannel.buf)
                 /\ \E r \in Runs :
                       /\ AtSender(r) = "running" /\ AtSender(r)' = "write"
                       /\ held'["serialPortSender"].cmd = Head(sendChannel.buf)
        /\ \A r \in Runs :
              /\ (AtSender(r) = "running" /\ AtSender(r)' # "running")
                 => /\ held["serialPortSender"] = NoHeld
                    /\ AtSender(r)' \in {"write", "exited"}
              /\ AtSender(r) = "write"
                 => /\ ENABLED WriteCommand(r)
                    /\ AtSender(r)' \in {"write", "running"}
                    /\ AtSender(r)' = "write" => UNCHANGED held
                    /\ AtSender(r)' = "running"
                       => /\ last'.op = "WriteCommand"
                          /\ last'.run = r
                          /\ last'.cmd = held["serialPortSender"].cmd.Cmd
                          /\ held'["serialPortSender"] = NoHeld
                          /\ UNCHANGED sendChannel
              /\ (last'.op = "WriteCommand" /\ last'.run = r)
                 => AtSender(r) = "write" /\ AtSender(r)' = "running"
      ]_vars

\* "C1" and "C2" were enqueued in this order; the write of "C1" has failed,
\* "C2" alone is in the channel and the Sender is back at its receive
C24_Witness ==
    /\ last.op = "WriteCommand"
    /\ last.err = "write failed"
    /\ last.cmd = << "C", "1" >>
    /\ Len(sendChannel.buf) = 1
    /\ Head(sendChannel.buf).Cmd = << "C", "2" >>
    /\ AtSender(1) = "running"
    /\ held["serialPortSender"] = NoHeld

\* the normalized prefix of a state: trimmed and upper-cased, as
\* initializeStateSet registers it
Normalized(prefix) == ToUpper(TrimSpace(prefix))

(***************************************************************************)
(* C25, as claimed: the data of a matched state is the line without its    *)
(* first n bytes, n being the length of the state's normalized prefix.     *)
(***************************************************************************)
C25_DataFollowsPrefix ==
    (last.op = "lookupCatState" /\ last.err = "nil")
    => last.state.Data =
          SubSeq(last.line, Len(Normalized(last.state.Prefix)) + 1, Len(last.line))

\* when the probed bytes of the line hold no whitespace, the data is the
\* line without the normalized prefix
C25_WithoutWhitespace ==
    ( /\ last.op = "lookupCatState"
      /\ last.err = "nil"
      /\ \A i \in 1 .. Min(ProbeWindow(last.line), Len(last.line)) :
            ~IsSpace(last.line[i]) )
    => last.state.Data =
          SubSeq(last.line, Len(Normalized(last.state.Prefix)) + 1, Len(last.line))

\* the positions of the mappings whose key is the slice
KeyHits(mappings, slice) == { i \in DOMAIN mappings : mappings[i].Key = slice }

(***************************************************************************)
(* C26: the status of a processed line has, under the tag of a marker      *)
(* whose slice is not empty, the raw slice if the marker has no mappings,  *)
(* the value of the first mapping in configured order whose key is the     *)
(* slice if there is one, and the empty string if the marker has mappings  *)
(* and none has the slice as its key.                                      *)
(***************************************************************************)
C26_FirstMappingWins ==
    (last.op = "lineProcessor" /\ last.err = "nil")
    => \A i \in DOMAIN last.state.Markers :
          LET marker == last.state.Markers[i]
              data == last.state.Data
              slice == SubSeq(data, marker.Index + 1,
                              Min(marker.Index + marker.Length, Len(data)))
              hits == KeyHits(marker.ValueMappings, slice)
              first == CHOOSE h \in hits : \A g \in hits : h <= g
              stored == { e \in last.status : e.Tag = marker.Tag }
          IN  ( /\ marker.Index >= 0
                /\ marker.Length > 0
                /\ marker.Index < Len(data)
                /\ marker.Index + marker.Length <= MaxInt
                /\ \A j \in DOMAIN last.state.Markers :
                      j # i => last.state.Markers[j].Tag # marker.Tag )
              => stored =
                    { [Tag |-> marker.Tag,
                       Value |-> IF marker.ValueMappings = << >> THEN slice
                                 ELSE IF hits = {} THEN << >>
                                 ELSE marker.ValueMappings[first].Value] }

\* two mappings have the key "12": the line "FA12x" has been processed and
\* the value of the first one is stored
C26_Witness ==
    /\ last.op = "lineProcessor"
    /\ last.err = "nil"
    /\ last.state.Data = << "1", "2", "x" >>
    /\ last.state.Markers[1].ValueMappings =
           << Mapping(<< "1", "2" >>, << "a" >>), Mapping(<< "1", "2" >>, << "b" >>) >>
    /\ last.status = { [Tag |-> "X", Value |-> << "a" >>] }

(***************************************************************************)
(* C28: once the service is initialized no step changes the configuration, *)
(* the prefix table or the longest prefix length, and the configuration    *)
(* is the one the config service gave Initialize.  An EnqueueCommand that  *)
(* returns nil has formatted the configured template of its command with   *)
(* its parameters, however many commands were formatted before.            *)
(***************************************************************************)
C28_ConfigurationImmutable ==
    [][ initialized =>
          /\ config = ConfigService.Rig
          /\ supportedCatStates = initializeStateSet(ConfigService.Rig).table
          /\ UNCHANGED << config, supportedCatStates, maxCatPrefixLen, ConfigService >>
          /\ (last'.op = "EnqueueCommand" /\ last'.err = "nil")
             => last'.cmd =
                   Sprintf(lookupFrom(ConfigService.Rig.CatCommands, 1,
                                      last'.name).cmd.Cmd,
                           last'.params)
          /\ \A params \in SendParams :
                started => EnqueueChecks("INIT", params).err = "nil"
      ]_vars

\* "INIT" was formatted and written as "C1"; a second EnqueueCommand has
\* formatted the same template as "C2", and a line has been matched and
\* published in between
C28_Witness ==
    /\ last.op = "EnqueueCommand"
    /\ last.err = "nil"
    /\ last.cmd = << "C", "2" >>
    /\ held["serialPortSender"].cmd.Cmd = << "C", "1" >>
    /\ statusChannel.buf # << >>
    /\ config = RunRig

(***************************************************************************)
(* C29: close is called on a run's shutdownChannel at most once, whatever  *)
(* the callers do: a Stop that finds the channel closed, as a Stop         *)
(* repeated after a failed Close of the port does, leaves it alone, and a  *)
(* closed channel stays closed.                                            *)
(***************************************************************************)
C29_SignalledOnce ==
    [][ \A r \in Runs :
          /\ hist'.signals[r] <= 1
          /\ shutdownChannel[r] = "closed"
             => /\ shutdownChannel'[r] = "closed"
                /\ hist'.signals[r] = hist.signals[r]
          /\ hist'.signals[r] # hist.signals[r]
             => /\ shutdownChannel[r] = "open"
                /\ shutdownChannel'[r] = "closed"
                /\ \E c \in Callers : pc[c] = "Stop:signal" /\ mu = c
          /\ (shutdownChannel[r] = "open" /\ shutdownChannel'[r] = "closed")
             => hist'.signals[r] = 1
      ]_vars

\* a Stop has failed to close the port, and a second Stop, which found the
\* run's shutdownChannel closed, has closed the port: one close of the
\* channel
C29_Witness ==
    /\ last.op = "Stop"
    /\ last.err = "nil"
    /\ last.at = "Stop:close"
    /\ hist.closeFails = 1
    /\ hist.signals[1] = 1
    /\ shutdownChannel[1] = "closed"
    /\ ~started

(***************************************************************************)
(* C30: a Start whose initializeSerialPort fails returns the open error    *)
(* and has made no run and launched no worker: the workers, the shutdown   *)
(* channels, the current run and the count of runs are as they were, the   *)
(* service is not started and the mutex is free.  After that return a      *)
(* caller can call Start again, and that Start gets to the open again.     *)
(***************************************************************************)
C30_OpenFailure ==
    [][ \A c \in Callers :
          /\ (pc[c] = "Start:open" /\ pc'[c] = "idle")
             => /\ last'.op = "Start"
                /\ last'.c = c
                /\ last'.err = errOpen
                /\ UNCHANGED << worker, shutdownChannel, currentRun, nextRun,
                                started, statusChannel, sendChannel,
                                processingChannel >>
                /\ ~started'
                /\ currentRun' = 0
                /\ mu' = 0
          /\ (last'.op = "Start" /\ last'.c = c /\ last'.err = errOpen)
             => /\ pc[c] = "Start:open"
                /\ pc'[c] = "idle"
                /\ initialized' /\ ~started' /\ mu' = 0
                /\ LiveRuns' = {}
          /\ (pc[c] = "idle" /\ initialized) => ENABLED StartEnter(c)
          /\ (pc[c] = "Start:Lock" /\ ~started /\ mu = 0 /\ nextRun < MaxRuns)
             => /\ ENABLED StartLock(c)
                /\ pc'[c] # "Start:Lock" => pc'[c] = "Start:open"
          /\ (pc[c] = "Start:open" /\ pc'[c] = "Start:store")
             => /\ currentRun' = nextRun + 1
                /\ \A w \in Workers : worker'[currentRun'][w] = "running"
      ]_vars

\* the first Start has failed to open the port: no run, no worker
C30_Witness ==
    /\ last.op = "Start"
    /\ last.err = errOpen
    /\ last.at = "Start:open"
    /\ nextRun = 0
    /\ currentRun = 0
    /\ \A r \in Runs, w \in Workers : worker[r][w] = "nil"
    /\ ~started
    /\ mu = 0

(***************************************************************************)
(* C31..C34.                                                               *)
(***************************************************************************)

\* no Start and no Stop is between its entry and its return
NoLifecycleCall ==
    \A c \in Callers : pc[c] \in {"idle", "Enqueue:send"}

\* the three workers of a run are all alive
ThreeLive(r) ==
    \A w \in Workers : worker[r][w] \notin {"nil", "exited"}

(***************************************************************************)
(* C31: whenever no Start or Stop call is in progress the running flag     *)
(* agrees with the resources.  Running implies a current run whose         *)
(* cancellation signal has not fired, three live workers and an open       *)
(* transport; not Running implies no current run, no live worker and no    *)
(* open transport, also after a Stop that returned a transport-close       *)
(* error.                                                                  *)
(***************************************************************************)
C31_FlagAgreesWithResources ==
    NoLifecycleCall =>
        IF started
        THEN /\ currentRun # 0
             /\ shutdownChannel[currentRun] = "open"
             /\ ThreeLive(currentRun)
             /\ serialPort = "port"
        ELSE /\ currentRun = 0
             /\ LiveRuns = {}
             /\ serialPort = "nil"

\* caller c's EnqueueCommand returns success in this step
Accepted(c) ==
    /\ pc[c] = "Enqueue:send"
    /\ pc'[c] = "idle"
    /\ last'.op = "EnqueueCommand"
    /\ last'.c = c
    /\ last'.err = "nil"

(***************************************************************************)
(* C32: EnqueueCommand never returns success once the cancellation signal  *)
(* of the current run has fired.  Every accepted command is put on the     *)
(* send channel while there is a current run whose signal is open and      *)
(* whose Sender is alive.                                                  *)
(***************************************************************************)
C32_AcceptedWhileSenderAlive ==
    [][\A c \in Callers :
          Accepted(c) =>
              /\ currentRun # 0
              /\ shutdownChannel[currentRun] = "open"
              /\ worker[currentRun]["serialPortSender"] \notin {"nil", "exited"}
      ]_vars

\* the mailbox that Initialize makes: one snapshot
Mailbox == statusChannel.cap = 1

\* the Processor of run r is in a publication
Publishing(r) == AtProcessor(r) \in {"publish", "evict"}

\* the Processor of run r sends its status in this step
Published(r) == last'.op = "publish" /\ last'.run = r

\* a consumer that receives takes the oldest snapshot of the mailbox, and a
\* consumer waits in a receive only at an empty mailbox
TakesOldest ==
    /\ last'.op = "receive"
       => /\ statusChannel.buf # << >>
          /\ last'.status = Head(statusChannel.buf)
          /\ statusChannel'.buf = Tail(statusChannel.buf)
    /\ consumer' = "receiving" => statusChannel'.buf = << >>

\* a publication ends, the run not cancelled, only with its send, and the
\* send puts the snapshot behind what the mailbox holds, or hands it to the
\* consumer that waits at the empty mailbox
PlacesNewest(r) ==
    /\ (Publishing(r) /\ ~Publishing(r)' /\ shutdownChannel[r] # "closed")
       => Published(r)
    /\ Published(r)
       => /\ AtProcessor(r) = "publish"
          /\ last'.status = held["lineProcessor"].status
          /\ IF last'.at = "consumer"
             THEN /\ consumer = "receiving"
                  /\ consumer' = "none"
                  /\ statusChannel.buf = << >>
                  /\ UNCHANGED statusChannel
             ELSE /\ statusChannel'.buf =
                        Append(statusChannel.buf, held["lineProcessor"].status)
                  /\ UNCHANGED consumer

\* a snapshot leaves the mailbox only from its head, received by a consumer
\* or evicted by the Processor that is publishing the next one
LeavesByReadOrEviction ==
    (statusChannel.buf # << >> /\ Head(statusChannel'.buf \o << {} >>) #
                                   Head(statusChannel.buf))
    => /\ statusChannel'.buf = Tail(statusChannel.buf)
       /\ last'.status = Head(statusChannel.buf)
       /\ \/ last'.op = "receive" /\ last'.at = "consumer"
          \/ /\ last'.op = "evict"
             /\ worker[last'.run]["lineProcessor"] = "evict"
             /\ worker'[last'.run]["lineProcessor"] = "publish"
             /\ held'["lineProcessor"].evicted = << Head(statusChannel.buf) >>

(***************************************************************************)
(* C33: the status mailbox is latest-wins under a concurrent consumer.  It *)
(* never holds more than one snapshot; a consumer receives the snapshots   *)
(* in the order the Processor produced them; and a snapshot whose          *)
(* publication completed stays in the mailbox until a consumer reads it or *)
(* a newer one replaces it: the Processor that has evicted it leaves its   *)
(* publication only by sending the newer snapshot.                         *)
(***************************************************************************)
C33_HeldUntilReadOrReplaced ==
    [][ Mailbox =>
          /\ Len(statusChannel'.buf) <= 1
          /\ TakesOldest
          /\ LeavesByReadOrEviction
          /\ \A r \in Runs :
                /\ PlacesNewest(r)
                /\ ( /\ Publishing(r)
                     /\ held["lineProcessor"].evicted # << >>
                     /\ ~Publishing(r)' )
                   => Published(r)
      ]_vars

(***************************************************************************)
(* C33, amended: as above, except that the Processor that has evicted a    *)
(* snapshot may be cancelled before it has sent the newer one.  It then    *)
(* exits and the evicted snapshot is replaced by nothing: the mailbox is   *)
(* left empty.                                                             *)
(***************************************************************************)
C33_ReplacedUnlessCancelled ==
    [][ Mailbox =>
          /\ Len(statusChannel'.buf) <= 1
          /\ TakesOldest
          /\ LeavesByReadOrEviction
          /\ \A r \in Runs :
                /\ PlacesNewest(r)
                /\ ( /\ Publishing(r)
                     /\ held["lineProcessor"].evicted # << >>
                     /\ ~Publishing(r)' )
                   => \/ Published(r)
                      \/ /\ shutdownChannel[r] = "closed"
                         /\ AtProcessor(r)' = "exited"
                         /\ statusChannel'.buf = << >>
                         /\ last'.op # "publish"
      ]_vars

\* the Processor has evicted the snapshot of "FA1" for the one of "FA2" and
\* is about to offer it, the mailbox is empty and the run has been cancelled
C33_Witness ==
    /\ Mailbox
    /\ AtProcessor(1) = "publish"
    /\ held["lineProcessor"].evicted = << { [Tag |-> "X", Value |-> << "1" >>] } >>
    /\ held["lineProcessor"].status = { [Tag |-> "X", Value |-> << "2" >>] }
    /\ statusChannel.buf = << >>
    /\ shutdownChannel[1] = "closed"
    /\ consumer = "none"

(***************************************************************************)
(* C34: with the Processor as the only producer and a mailbox of capacity  *)
(* 1, one publication evicts at most one stale snapshot and makes at most  *)
(* two offers, whatever the consumers that drain the mailbox do.  An offer *)
(* is one evaluation of the send case of the select: the send that         *)
(* succeeds, or the default case taken because the send was not ready.     *)
(* Hence the default case is taken at most once, and after it the offer    *)
(* that follows finds room.                                                *)
(***************************************************************************)
C34_EvictionCannotSpin ==
    [][ Mailbox =>
          \A r \in Runs :
             /\ AtProcessor(r)' \in {"publish", "evict"}
                => /\ Len(held'["lineProcessor"].evicted) <= 1
                   /\ hist'.offers <= 1
             /\ (AtProcessor(r) = "publish" /\ AtProcessor(r)' = "evict")
                => /\ hist.offers = 0
                   /\ held["lineProcessor"].evicted = << >>
             /\ (last'.op = "publish" /\ last'.run = r)
                => /\ hist.offers + 1 <= 2
                   /\ Len(last'.evicted) <= 1
             /\ (AtProcessor(r) = "evict" /\ AtProcessor(r)' = "publish")
                => statusChannel'.buf = << >>
      ]_vars

\* the second offer of a publication has succeeded after one eviction: the
\* first offer found the snapshot of "FA1" in the mailbox
C34_Witness ==
    /\ Mailbox
    /\ last.op = "publish"
    /\ last.at = "statusChannel"
    /\ last.evicted = << { [Tag |-> "X", Value |-> << "1" >>] } >>
    /\ AtProcessor(1) = "running"
    /\ consumer = "none"
    /\ statusChannel.buf = << last.status >>
    /\ last.status = { [Tag |-> "X", Value |-> << "1" >>] }

====
